---------------------------- MODULE Spec2Model ----------------------------
(***************************************************************************)
(* State-machine model of the FastRG controller (Go).                      *)
(*                                                                         *)
(*   Spec           the node registry: gRPC RegisterNode / UnregisterNode  *)
(*                  / Heartbeat, REST DELETE /api/nodes/{uuid}, the stale  *)
(*                  sweeper and the node monitor supervisor.               *)
(*   HeartbeatSpec  the registry with the replies of Heartbeat recorded.   *)
(*   ScrapeSpec     the scrape loop of one monitor and the Prometheus      *)
(*                  gauge registry, with the handlers that start and stop  *)
(*                  it.                                                    *)
(*   FairSpec       a node that falls silent, with a reachable store and   *)
(*                  the scheduling of the sweeper, the handlers and time.  *)
(*   AuthSpec       the REST auth middleware, Logout and the               *)
(*                  token_blacklist/ keys with their etcd leases.          *)
(*   VlanSpec       HSI records of two users: create, update, delete,      *)
(*                  one request after the other.                           *)
(*   ConfigSpec     the HSI record of one user and the node's subscriber   *)
(*                  count, written and read one request after the other.   *)
(*   RaceSpec       the writers and readers of one HSI key and of the      *)
(*                  subscriber count, overlapping.                         *)
(*   CommandSpec    dial / hangup commands against a record that comes     *)
(*                  and goes and a count that changes.                     *)
(*   WatchSpec      the failed-event pipeline, the watcher scheduled.      *)
(*   ShutdownSpec   GrpcServer.Start and Stop with the sweeper, a monitor  *)
(*                  loop and the watcher running, every goroutine          *)
(*                  scheduled.                                             *)
(*   FleetSpec      the scrape loops of two nodes.                         *)
(*   OrderSpec      the validation order of HSI create and update, with    *)
(*                  a subscriber count that changes.                       *)
(*   ScanSpec       creates for two users and one VLAN, overlapping.       *)
(*   SweepSpec      the stale sweeper over nodes/ values that other        *)
(*                  clients of the store wrote.                            *)
(*   HistorySpec    the failed-event read endpoints over history/ keys.    *)
(*   UtilSpec       utils.ParseIPRange and utils.IPv4toInt on bounded      *)
(*                  inputs.                                                *)
(*   AccountSpec    POST /api/register, requests overlapping each other    *)
(*                  and the other writers of users/.                       *)
(*   ListSpec       GET /hsi/users over the records of three users and a   *)
(*                  subscriber count that is set, changed or unreadable,   *)
(*                  the list overlapping the writes.                       *)
(*   RemoveSpec     DELETE of HSI records that hold commands, under a      *)
(*                  subscriber count that changes.                         *)
(*   RefreshSpec    the sweeper against a node that registers and sends    *)
(*                  heartbeats.                                            *)
(*   AddressSpec    a node that registers from two addresses, overlapping. *)
(*   MonitorSpec    the monitor supervisor under every caller of start and *)
(*                  stop, some with an address the gRPC client rejects.    *)
(*                                                                         *)
(* Every handler is cut into steps at its suspension points (an etcd call, *)
(* an outbound gRPC call, taking the supervisor's mutex, a reading of the  *)
(* clock, a cancel or Close, one Set or DeleteLabelValues on the gauge     *)
(* registry): between two steps of one handler                             *)
(* any step of another goroutine may run.                                  *)
(***************************************************************************)
EXTENDS Integers, Sequences, FiniteSets, Bags, TLC

\* ------------------------------------------------------------------ bounds
MaxCalls    == 2     \* RPC / REST handlers in flight at once
MaxMonitors == 2     \* NodeMonitor objects created in one behaviour
MaxTime     == 61    \* the wall clock stops advancing here
MaxNics     == 2     \* NIC entries in one GetFastrgSystemInfo response
MaxRequests == 2     \* REST requests inside the auth middleware or Logout at once
MaxVersion  == 2     \* no write is admitted to a key whose resourceVersion has reached this
MaxCount    == 2     \* the largest subscriber count a PUT carries
MaxEvents   == 3     \* events etcd sends on the failed_events/ watch in one behaviour

\* --------------------------------------------------------- program constants
HeartbeatTimeout == 60

\* grpc.NewClient(nodeIP + ":50052") parses its target as a URL and fails on
\* one that does not parse: BadIP has an invalid percent escape.
BadIP == "%zz"
NewClientFails(ip) == ip = BadIP

\* The addresses nodes register with (each one grpc.NewClient accepts), and
\* the same with an address it rejects.
IPs == {"10.0.0.5"}
Targets == IPs \cup {BadIP}

\* The clock advances in jumps that land exactly on and just past the
\* staleness boundary (a difference of 60 is fresh, 61 is stale).
TickSteps == {HeartbeatTimeout, HeartbeatTimeout + 1}

VARIABLES
    now,        \* time.Now().Unix()
    nodes,      \* etcd keys nodes/{uuid}: a function from the present uuids to records
    monitors,   \* NodeMonitorManager.monitors: uuid -> monitor id (index into mons)
    mu,         \* NodeMonitorManager.mu: the uuid being stopped and the step reached, Unlocked when free
    mons,       \* every NodeMonitor created so far, in creation order
    series,     \* the process-global Prometheus registry: the labelled gauge series
    calls,      \* the handlers in flight: a bag of call records
    reply,      \* the reply sent by the step just taken, NoReply otherwise
    watch,      \* the operations whose replies are recorded in reply (fixed by Init)
    sweep,      \* the stale sweeper goroutine
    blacklist,  \* etcd keys token_blacklist/{token}: token -> the lease of the entry
    reqs,       \* the protected REST requests in flight: a bag of request records
    resp,       \* what the step just taken did to a REST request, NoResp otherwise
    loggedOut,  \* ghost: the tokens for which a Logout has answered 200
    configs,    \* etcd keys configs/n1/hsi/{userId}: user id -> stored record
    counts,     \* etcd key user_counts/n1/: <<>> or <<record>>
    commands,   \* etcd keys commands/n1/pppoe_{action}_{userId}: <<action, user>> -> envelope
    hsi,        \* the HSI / command / subscriber-count requests in flight: a bag
    hresp,      \* the response sent by the step just taken, NoHResp otherwise
    written,    \* ghost: key -> the resourceVersion of the last successful write, and overlaps
    serial,     \* the HSI requests arrive one after the other's answer (fixed by Init)
    feed,       \* the watch on failed_events/: every event etcd has sent, in order
    fhist,      \* etcd keys failed_events_history/{node}/{ts}: key -> value and lease
    watcher,    \* the failed-event watcher goroutine: position, locals, events read
    down,       \* the GrpcServer: its context cancelled or not, its grpc.Server, the position of Stop
    users,      \* etcd keys users/{username}: username -> stored bcrypt hash
    regs,       \* the POST /api/register requests in flight: a bag
    rresp,      \* the response sent by the step just taken, NoRResp otherwise
    arg,        \* the argument a utility function is called with (fixed by Init)
    ret         \* what that call returned, NoRet before the call

vars == <<now, nodes, monitors, mu, mons, series, calls, reply, watch, sweep,
          blacklist, reqs, resp, loggedOut,
          configs, counts, commands, hsi, hresp, written, serial,
          feed, fhist, watcher, down,
          users, regs, rresp, arg, ret>>

registryVars == <<nodes, monitors, mu, mons, series, calls, reply, watch, sweep>>
authVars == <<blacklist, reqs, resp, loggedOut>>
configVars == <<configs, counts, commands, hsi, hresp, written, serial>>
eventVars == <<feed, fhist, watcher>>
userVars == <<users, regs, rresp>>
utilVars == <<arg, ret>>
planeVars == <<configVars, eventVars, down, userVars, utilVars>>

\* ------------------------------------------------------------- key-value maps
\* clientv3 Put / Delete on one key of a keyspace held as a function.
PutKey(f, k, v) == [x \in (DOMAIN f) \cup {k} |-> IF x = k THEN v ELSE f[x]]
DelKey(f, k)    == [x \in (DOMAIN f) \ {k} |-> f[x]]

\* etcd returns a prefix read in key order.
NodeOrder == <<"n1", "n2">>

\* ------------------------------------------------------- monitor supervisor
\* The supervisor's share of the state, passed through the operators below.
Sup == [monitors |-> monitors, mu |-> mu, mons |-> mons, series |-> series]

SetSup(S) ==
    /\ monitors' = S.monitors
    /\ mu' = S.mu
    /\ mons' = S.mons
    /\ series' = S.series

\* nmm.mu is free, or held by the call that is stopping the monitor of uuid
\* and stands before step at of stopMonitoringLocked.
Unlocked == [uuid |-> "", at |-> 0]

\* The gauges, by label set and in the order the scrape sets them:
\*   nic            NicGauges          {node_uuid, nic_index}
\*   per_user       PerUserGauges      {node_uuid, nic_index, user_id}
\*   unknown_user   UnknownUserGauges  {node_uuid, nic_index}
\*   pppoe_session  PPPoESessionGauges {node_uuid, user_id}
\*   pppoe_total    PPPoETotalGauges   {node_uuid}
\*   dhcp_user      DhcpUserGauges     {node_uuid, user_id}
\*   dhcp_total     DhcpTotalGauges    {node_uuid}
\* nic_index is -1 and user_id is 0 where the family has no such label.
NicGauges ==
    <<"rxPackets", "txPackets", "rxBytes", "txBytes", "rxErrors", "txErrors", "rxDropped">>
PerUserGauges ==
    <<"perUserRxPackets", "perUserRxBytes", "perUserTxPackets", "perUserTxBytes",
      "perUserDropPackets", "perUserDropBytes">>
UnknownUserGauges ==
    <<"unknownUserRxPackets", "unknownUserRxBytes", "unknownUserTxPackets",
      "unknownUserTxBytes", "unknownUserDropPackets", "unknownUserDropBytes">>
PPPoESessionGauges ==
    <<"perPPPoESessionRxPackets", "perPPPoESessionRxBytes", "perPPPoESessionTxPackets",
      "perPPPoESessionTxBytes">>
PPPoETotalGauges ==
    <<"totalPPPoEDataSessions", "totalPPPoEIPCPSessions", "totalPPPoEAuthSessions",
      "totalPPPoELCPSessions", "totalPPPoEInitSessions", "totalPPPoETerminatedSessions",
      "totalPPPoENotConfiguredSessions", "totalPPPoEErrorSessions">>
DhcpUserGauges == <<"perUserDhcpCurLeaseCount", "perUserDhcpMaxLeaseCount">>
DhcpTotalGauges ==
    <<"totalRunningDhcpServer", "totalStoppedDhcpServer", "totalNotConfiguredDhcpServer">>

\* One labelled series of one gauge.
Series(fam, g, u, nic, user) ==
    [family |-> fam, gauge |-> g, node_uuid |-> u, nic_index |-> nic, user_id |-> user]

\* deleteNodeMetrics runs for i := 0; i < 2.
DeletedIndexes == 2

\* The registry operations of deleteNodeMetrics.
Deletes == DeletedIndexes * Len(NicGauges)

\* deleteNodeMetrics, its k-th operation: DeleteLabelValues(nodeUUID, i) on
\* one NIC gauge, the seven gauges of index 0 first, then those of index 1.
deleteNodeMetrics(sr, u, k) ==
    sr \ {Series("nic", NicGauges[((k - 1) % Len(NicGauges)) + 1], u,
                 (k - 1) \div Len(NicGauges), 0)}

\* The steps of stopMonitoringLocked: cancel, Close, the deletes, the map entry.
CloseStep == 1
UnmapStep == Deletes + 2

\* stopMonitoringLocked, step at (0 is also the lookup that returns at once
\* when no monitor is held): monitor.cancel(), grpcConn.Close(), one
\* operation of deleteNodeMetrics, delete(nmm.monitors, nodeUUID).  mu is
\* taken with the first step and dropped with the last.
stopMonitoringLocked(S, u, at) ==
    IF u \notin DOMAIN S.monitors
    THEN S
    ELSE LET m == S.monitors[u] IN
         CASE at = 0 ->
                [S EXCEPT !.mons[m].cancelled = TRUE, !.mu = [uuid |-> u, at |-> CloseStep]]
           [] at = CloseStep ->
                [S EXCEPT !.mons[m].connOpen = FALSE, !.mu.at = at + 1]
           [] at > CloseStep /\ at < UnmapStep ->
                [S EXCEPT !.series = deleteNodeMetrics(@, u, at - CloseStep), !.mu.at = at + 1]
           [] OTHER ->
                [S EXCEPT !.monitors = DelKey(@, u), !.mu = Unlocked]

\* StopMonitoring: nmm.mu.Lock() and the first step of stopMonitoringLocked.
StopMonitoring(S, u) == stopMonitoringLocked(S, u, 0)

\* StopMonitoring run from step at to its end with nothing in between.
RECURSIVE StopMonitoringFrom(_, _, _)
StopMonitoringFrom(S, u, at) ==
    IF at > UnmapStep THEN S
    ELSE StopMonitoringFrom(stopMonitoringLocked(S, u, at), u, at + 1)

\* n and at are the goroutine's locals while it sets gauges from a
\* GetFastrgSystemInfo response: the NIC entries of the response and the
\* number of writes already made from the response in hand.
NewMonitor(u, ip) ==
    [nodeUUID |-> u, nodeIP |-> ip, cancelled |-> FALSE, connOpen |-> TRUE,
     loop |-> "select", n |-> 0, at |-> 0]

\* StartMonitoring from grpc.NewClient on: open the connection (an address
\* grpc.NewClient rejects ends the call there, with none installed), store
\* the monitor, spawn monitorLoop.
StartNew(S, u, ip) ==
    IF NewClientFails(ip) THEN S
    ELSE [S EXCEPT !.monitors = PutKey(@, u, Len(S.mons) + 1),
                   !.mons = Append(@, NewMonitor(u, ip))]

\* Fault: the new monitor is installed over the old one, which keeps running.
StartMonitoringNoRestart(S, u, ip) == StartNew(S, u, ip)

\* StartMonitoring, nmm.mu.Lock() and what follows up to the first operation
\* another goroutine can see: the restart's cancel when the node is already
\* monitored, else the whole of the call.
StartMonitoring(S, u, ip) ==
    IF u \in DOMAIN S.monitors THEN stopMonitoringLocked(S, u, 0) ELSE StartNew(S, u, ip)

\* The monitor id the supervisor holds for u, 0 when it holds none.
MonitorOf(u) == IF u \in DOMAIN monitors THEN monitors[u] ELSE 0

\* ------------------------------------------------------------------- handlers
\* A handler in flight: its request, its position and its locals.  mon0 is a
\* ghost: the monitor the supervisor held for uuid when an unregister began;
\* for a Heartbeat, -1 when it arrived while an UnregisterNode of its uuid
\* stood between its StopMonitoring and its Delete, else 0.
Call(op, u, ip, pc, ts, mon0) ==
    [op |-> op, uuid |-> u, ip |-> ip, pc |-> pc, ts |-> ts, mon0 |-> mon0]

InFlight == BagToSet(calls)

Spawn(r)       == calls' = calls (+) SetToBag({r})
Advance(r, r2) == calls' = (calls (-) SetToBag({r})) (+) SetToBag({r2})
Finish(r)      == calls' = calls (-) SetToBag({r})

CanAccept == BagCardinality(calls) < MaxCalls

\* The reply a handler sends as it returns, recorded for the watched operations;
\* every other step clears it.
NoReply == [op |-> "", uuid |-> "", res |-> ""]
Reply(op, u, res) ==
    /\ reply' = IF op \in watch THEN [op |-> op, uuid |-> u, res |-> res] ELSE NoReply
    /\ UNCHANGED <<watch, authVars, planeVars>>
Quiet == reply' = NoReply /\ UNCHANGED <<watch, authVars, planeVars>>

\* RegisterNode handlers that have not yet reached StartMonitoring.
PendingRegisters ==
    BagCardinality([r \in {x \in InFlight : x.op = "Register"} |-> CopiesIn(r, calls)])

NodeRecord(u, ip, ts) ==
    [node_uuid |-> u, ip |-> ip, last_seen_time |-> ts, status |-> "active"]

\* The sweeper's ghost: a RegisterNode step for u ran after the current cycle
\* deleted nodes/{u}.
NoteRegister(u) ==
    sweep' = IF u \in sweep.deleted THEN [sweep EXCEPT !.regd = @ \cup {u}] ELSE sweep

\* --- gRPC RegisterNode
\* Lines 68-93: reject an empty uuid, else build nodeData (time.Now() is read here).
RegisterBegin(u, ip) ==
    /\ CanAccept
    /\ IF u = ""
       THEN /\ Reply("Register", u, "node_uuid is required")
            /\ UNCHANGED <<calls, sweep>>
       ELSE /\ Len(mons) + PendingRegisters < MaxMonitors
            /\ Spawn(Call("Register", u, ip, "put", now, 0))
            /\ NoteRegister(u)
            /\ Quiet
    /\ UNCHANGED <<now, nodes, monitors, mu, mons, series>>

\* Lines 95-104: Put nodes/{uuid}.
RegisterPut(r, ok) ==
    /\ r.op = "Register" /\ r.pc = "put"
    /\ IF ok
       THEN /\ nodes' = PutKey(nodes, r.uuid, NodeRecord(r.uuid, r.ip, r.ts))
            /\ Advance(r, [r EXCEPT !.pc = "start"])
            /\ Quiet
       ELSE /\ Finish(r)
            /\ Reply("Register", r.uuid, "Failed to register node")
            /\ UNCHANGED nodes
    /\ NoteRegister(r.uuid)
    /\ UNCHANGED <<now, monitors, mu, mons, series>>

\* Lines 108-117: StartMonitoring takes nmm.mu; when the node is not yet
\* monitored it runs to its end and the handler replies success, else the
\* restart begins.
RegisterStartMonitoring(r) ==
    /\ r.op = "Register" /\ r.pc = "start"
    /\ mu = Unlocked
    /\ LET S == StartMonitoring(Sup, r.uuid, r.ip) IN
         /\ SetSup(S)
         /\ IF S.mu = Unlocked
            THEN Finish(r) /\ Reply("Register", r.uuid, "Node registered successfully")
            ELSE Advance(r, [r EXCEPT !.pc = "restart"]) /\ Quiet
    /\ NoteRegister(r.uuid)
    /\ UNCHANGED <<now, nodes>>

\* The restart inside StartMonitoring: the next step of stopMonitoringLocked
\* short of the last.
RegisterRestart(r) ==
    /\ r.op = "Register" /\ r.pc = "restart"
    /\ mu.at < UnmapStep
    /\ SetSup(stopMonitoringLocked(Sup, mu.uuid, mu.at))
    /\ NoteRegister(r.uuid)
    /\ UNCHANGED <<now, nodes, calls>> /\ Quiet

\* The restart drops the map entry and StartMonitoring goes on from
\* grpc.NewClient to its end; the handler replies success.
RegisterRestarted(r) ==
    /\ r.op = "Register" /\ r.pc = "restart"
    /\ mu.at = UnmapStep
    /\ SetSup(StartNew(stopMonitoringLocked(Sup, mu.uuid, mu.at), r.uuid, r.ip))
    /\ Finish(r)
    /\ Reply("Register", r.uuid, "Node registered successfully")
    /\ NoteRegister(r.uuid)
    /\ UNCHANGED <<now, nodes>>

\* --- gRPC UnregisterNode
\* Lines 122-138: reject an empty uuid, Get nodes/{uuid}.
UnregisterGet(u, ok) ==
    /\ CanAccept
    /\ IF u = "" THEN
            Reply("GrpcUnregister", u, "node_uuid is required") /\ UNCHANGED calls
       ELSE IF ~ok THEN
            Reply("GrpcUnregister", u, "failed to check node registration") /\ UNCHANGED calls
       ELSE IF u \notin DOMAIN nodes THEN
            Reply("GrpcUnregister", u, "node not registered") /\ UNCHANGED calls
       ELSE Spawn(Call("GrpcUnregister", u, "", "stop", 0, MonitorOf(u))) /\ Quiet
    /\ UNCHANGED <<now, nodes, monitors, mu, mons, series, sweep>>

\* Fault: the handler goes on to the Delete without stopping the monitor.
UnregisterStopSkipped(r) ==
    /\ r.op = "GrpcUnregister" /\ r.pc = "stop"
    /\ Advance(r, [r EXCEPT !.pc = "delete"])
    /\ Quiet
    /\ UNCHANGED <<now, nodes, monitors, mu, mons, series, sweep>>

\* Line 140: StopMonitoring takes nmm.mu; it returns at once when no monitor
\* is held, else it cancels the monitor's context.
UnregisterStop(r) ==
    /\ r.op = "GrpcUnregister" /\ r.pc = "stop"
    /\ mu = Unlocked
    /\ LET S == StopMonitoring(Sup, r.uuid) IN
         /\ SetSup(S)
         /\ Advance(r, [r EXCEPT !.pc = IF S.mu = Unlocked THEN "delete" ELSE "stopping"])
    /\ Quiet
    /\ UNCHANGED <<now, nodes, sweep>>

\* StopMonitoring goes on: the next step of stopMonitoringLocked; after the
\* last the handler stands before its Delete.
UnregisterStopping(r) ==
    /\ r.op = "GrpcUnregister" /\ r.pc = "stopping"
    /\ LET S == stopMonitoringLocked(Sup, mu.uuid, mu.at) IN
         /\ SetSup(S)
         /\ IF S.mu = Unlocked
            THEN Advance(r, [r EXCEPT !.pc = "delete"])
            ELSE UNCHANGED calls
    /\ Quiet
    /\ UNCHANGED <<now, nodes, sweep>>

\* Lines 143-149: Delete nodes/{uuid}.
UnregisterDelete(r, ok) ==
    /\ r.op = "GrpcUnregister" /\ r.pc = "delete"
    /\ Finish(r)
    /\ IF ok
       THEN nodes' = DelKey(nodes, r.uuid) /\ Reply("GrpcUnregister", r.uuid, "ok")
       ELSE UNCHANGED nodes /\ Reply("GrpcUnregister", r.uuid, "failed to unregister node")
    /\ UNCHANGED <<now, monitors, mu, mons, series, sweep>>

\* --- REST DELETE /api/nodes/{uuid}  (the router never binds an empty :uuid)
\* Lines 588-606: Get nodes/{uuid}.
RestUnregisterGet(u, ok) ==
    /\ CanAccept
    /\ u # ""
    /\ IF ~ok THEN
            Reply("RestUnregister", u, "Failed to check node existence") /\ UNCHANGED calls
       ELSE IF u \notin DOMAIN nodes THEN
            Reply("RestUnregister", u, "Node not found") /\ UNCHANGED calls
       ELSE Spawn(Call("RestUnregister", u, "", "delete", 0, MonitorOf(u))) /\ Quiet
    /\ UNCHANGED <<now, nodes, monitors, mu, mons, series, sweep>>

\* Lines 608-616: Delete nodes/{uuid}.
RestUnregisterDelete(r, ok) ==
    /\ r.op = "RestUnregister" /\ r.pc = "delete"
    /\ Finish(r)
    /\ IF ok
       THEN nodes' = DelKey(nodes, r.uuid)
            /\ Reply("RestUnregister", r.uuid, "Node unregistered successfully")
       ELSE UNCHANGED nodes /\ Reply("RestUnregister", r.uuid, "Failed to unregister node")
    /\ UNCHANGED <<now, monitors, mu, mons, series, sweep>>

\* --- gRPC Heartbeat
\* An UnregisterNode of u has stopped the monitor and not yet deleted the key.
Unregistering(u) ==
    \E r \in InFlight : r.op = "GrpcUnregister" /\ r.uuid = u /\ r.pc = "delete"

\* Fault: a heartbeat for an unknown uuid goes on and writes a record for it.
HeartbeatGetAutoCreate(u, ok) ==
    /\ CanAccept
    /\ IF u = "" THEN
            Reply("Heartbeat", u, "node_uuid is required") /\ UNCHANGED calls
       ELSE IF ~ok THEN
            Reply("Heartbeat", u, "failed to check node registration") /\ UNCHANGED calls
       ELSE Spawn(Call("Heartbeat", u, IF u \in DOMAIN nodes THEN nodes[u].ip ELSE "",
                       "stamp", 0, IF Unregistering(u) THEN -1 ELSE 0)) /\ Quiet
    /\ UNCHANGED <<now, nodes, monitors, mu, mons, series, sweep>>

\* Lines 154-178: reject an empty uuid, Get nodes/{uuid}, unmarshal it.
HeartbeatGet(u, ok) ==
    /\ CanAccept
    /\ IF u = "" THEN
            Reply("Heartbeat", u, "node_uuid is required") /\ UNCHANGED calls
       ELSE IF ~ok THEN
            Reply("Heartbeat", u, "failed to check node registration") /\ UNCHANGED calls
       ELSE IF u \notin DOMAIN nodes THEN
            Reply("Heartbeat", u, "node not registered") /\ UNCHANGED calls
       ELSE Spawn(Call("Heartbeat", u, nodes[u].ip, "stamp", 0,
                       IF Unregistering(u) THEN -1 ELSE 0)) /\ Quiet
    /\ UNCHANGED <<now, nodes, monitors, mu, mons, series, sweep>>

\* Lines 181-192: merge the heartbeat into the record that was read.
HeartbeatStamp(r) ==
    /\ r.op = "Heartbeat" /\ r.pc = "stamp"
    /\ Advance(r, [r EXCEPT !.ts = now, !.pc = "put"])
    /\ Quiet
    /\ UNCHANGED <<now, nodes, monitors, mu, mons, series, sweep>>

\* Lines 195-203: Put the merged record.
HeartbeatPut(r, ok) ==
    /\ r.op = "Heartbeat" /\ r.pc = "put"
    /\ Finish(r)
    /\ IF ok
       THEN nodes' = PutKey(nodes, r.uuid, NodeRecord(r.uuid, r.ip, r.ts))
            /\ Reply("Heartbeat", r.uuid, "ok")
       ELSE UNCHANGED nodes /\ Reply("Heartbeat", r.uuid, "failed to update node data")
    /\ UNCHANGED <<now, monitors, mu, mons, series, sweep>>

\* --------------------------------------------------------------- stale sweeper
SweepTimeout == 10   \* context.WithTimeout of one sweep, in seconds

SweepIdle == [pc |-> "idle", kvs |-> <<>>, i |-> 0, t0 |-> 0, currentTime |-> 0,
              deleted |-> {}, regd |-> {}, mon0 |-> 0]

\* The key-ordered snapshot a prefix read of nodes/ returns.
RangeRead(kv) ==
    LET present == SelectSeq(NodeOrder, LAMBDA u : u \in DOMAIN kv)
    IN  [j \in 1..Len(present) |-> [key |-> present[j], value |-> kv[present[j]]]]

\* Fault: the subtraction of the staleness test is the wrong way round.
IsStaleReversed(currentTime, rec) == rec.last_seen_time - currentTime > HeartbeatTimeout

\* Lines 256-258: the staleness test on one record.
IsStale(currentTime, rec) == currentTime - rec.last_seen_time > HeartbeatTimeout

\* A value under nodes/ that is not JSON, and objects whose last_seen_time is
\* missing or is a string: none of them has the member as a number.
Garbage == [text |-> "not json"]
NoLastSeen(u) == [node_uuid |-> u, status |-> "active"]
TextLastSeen(u) == [node_uuid |-> u, status |-> "active", last_seen_text |-> "yesterday"]

\* Line 243: json.Unmarshal into a map.
ParsesAsObject(value) == "text" \notin DOMAIN value

\* Line 250: nodeData["last_seen_time"].(float64), the zero value when not ok.
LastSeenTime(value) ==
    IF "last_seen_time" \in DOMAIN value
    THEN [ok |-> TRUE, t |-> value.last_seen_time]
    ELSE [ok |-> FALSE, t |-> 0]

\* Fault: the outcome of the type assertion is not looked at.
SweepStaleUnchecked(currentTime, value) ==
    currentTime - LastSeenTime(value).t > HeartbeatTimeout

\* Lines 241-258: the record is unregistered when it parses, its
\* last_seen_time is a number, and it is stale.
SweepStale(currentTime, value) ==
    /\ ParsesAsObject(value)
    /\ LastSeenTime(value).ok
    /\ IsStale(currentTime, value)

\* Lines 260-267: the uuid the sweeper unregisters, from the record.
SweepUuid(kvEntry) ==
    IF "node_uuid" \in DOMAIN kvEntry.value THEN kvEntry.value.node_uuid ELSE kvEntry.key

\* Lines 228-236: the ticker fires; range-read nodes/ under a 10 s context.
\* (deleted, regd and mon0 are ghosts of the cycle: the keys it deleted, the uuids
\* a RegisterNode step touched after their key was deleted, and the monitor the
\* map held for the stale node as its unregistration began.)
SweepGet(ok) ==
    /\ sweep.pc = "idle"
    /\ IF ok
       THEN sweep' = [SweepIdle EXCEPT !.pc = "clock", !.kvs = RangeRead(nodes), !.t0 = now]
       ELSE sweep' = sweep
    /\ UNCHANGED <<now, nodes, monitors, mu, mons, series, calls>> /\ Quiet

\* Line 238: currentTime := time.Now().Unix()
SweepClock ==
    /\ sweep.pc = "clock"
    /\ sweep' = [sweep EXCEPT !.pc = "loop", !.i = 1, !.currentTime = now]
    /\ UNCHANGED <<now, nodes, monitors, mu, mons, series, calls>> /\ Quiet

\* Lines 241-258: a record that is not stale, or cannot be read, is passed over.
SweepSkip ==
    /\ sweep.pc = "loop" /\ sweep.i <= Len(sweep.kvs)
    /\ ~SweepStale(sweep.currentTime, sweep.kvs[sweep.i].value)
    /\ sweep' = [sweep EXCEPT !.i = @ + 1]
    /\ UNCHANGED <<now, nodes, monitors, mu, mons, series, calls>> /\ Quiet

\* Fault: the sweeper unregisters a record without the staleness test.
SweepStopUntested ==
    /\ sweep.pc = "loop" /\ sweep.i <= Len(sweep.kvs)
    /\ mu = Unlocked
    /\ LET S == StopMonitoring(Sup, SweepUuid(sweep.kvs[sweep.i])) IN
         /\ SetSup(S)
         /\ sweep' = [sweep EXCEPT !.pc = IF S.mu = Unlocked THEN "delete" ELSE "stopping",
                                   !.mon0 = MonitorOf(SweepUuid(sweep.kvs[sweep.i]))]
    /\ UNCHANGED <<now, nodes, calls>> /\ Quiet

\* Lines 258-277: a stale record: StopMonitoring first.  It takes nmm.mu,
\* returns at once when no monitor is held, else cancels the monitor's context.
SweepStop ==
    /\ sweep.pc = "loop" /\ sweep.i <= Len(sweep.kvs)
    /\ SweepStale(sweep.currentTime, sweep.kvs[sweep.i].value)
    /\ mu = Unlocked
    /\ LET S == StopMonitoring(Sup, SweepUuid(sweep.kvs[sweep.i])) IN
         /\ SetSup(S)
         /\ sweep' = [sweep EXCEPT !.pc = IF S.mu = Unlocked THEN "delete" ELSE "stopping",
                                   !.mon0 = MonitorOf(SweepUuid(sweep.kvs[sweep.i]))]
    /\ UNCHANGED <<now, nodes, calls>> /\ Quiet

\* StopMonitoring goes on: the next step of stopMonitoringLocked; after the
\* last the sweeper stands before its Delete.
SweepStopping ==
    /\ sweep.pc = "stopping"
    /\ LET S == stopMonitoringLocked(Sup, mu.uuid, mu.at) IN
         /\ SetSup(S)
         /\ sweep' = [sweep EXCEPT !.pc = IF S.mu = Unlocked THEN "delete" ELSE "stopping"]
    /\ UNCHANGED <<now, nodes, calls>> /\ Quiet

\* The sweep's context has expired: its store calls fail.
SweepExpired == now - sweep.t0 > SweepTimeout

\* The outcomes the sweeper's Delete may have when the store's calls may end as oks.
SweepDeleteOutcomes(oks) ==
    {ok \in BOOLEAN : IF ok THEN ~SweepExpired ELSE SweepExpired \/ FALSE \in oks}

\* Lines 280-286: Delete the key.
SweepDelete(ok) ==
    /\ sweep.pc = "delete"
    /\ IF ok
       THEN /\ nodes' = DelKey(nodes, sweep.kvs[sweep.i].key)
            /\ sweep' = [sweep EXCEPT !.pc = "loop", !.i = @ + 1, !.mon0 = 0,
                                      !.deleted = @ \cup {sweep.kvs[sweep.i].key}]
       ELSE /\ sweep' = [sweep EXCEPT !.pc = "loop", !.i = @ + 1, !.mon0 = 0]
            /\ UNCHANGED nodes
    /\ UNCHANGED <<now, monitors, mu, mons, series, calls>> /\ Quiet

\* Lines 290-293: the cycle ends; the goroutine waits for the next tick.
SweepEnd ==
    /\ sweep.pc = "loop" /\ sweep.i > Len(sweep.kvs)
    /\ sweep' = SweepIdle
    /\ UNCHANGED <<now, nodes, monitors, mu, mons, series, calls>> /\ Quiet

\* tools/put_node, or any other client of the store, writes nodes/{u}: a
\* record stamped with the clock, or a value the sweeper cannot read.
NodeValues(u) == {NodeRecord(u, ip, now) : ip \in IPs} \cup {Garbage, NoLastSeen(u), TextLastSeen(u)}

PutNode(u, v) ==
    /\ v \in NodeValues(u)
    /\ nodes' = PutKey(nodes, u, v)
    /\ UNCHANGED <<now, monitors, mu, mons, series, calls, sweep>> /\ Quiet

\* ------------------------------------------------------------- monitor loops
MonIds == 1..Len(mons)

\* The scrape RPC issued in phase k of collectMetrics.
RpcState(k) == CASE k = 1 -> "rpc1" [] k = 2 -> "rpc2" [] k = 3 -> "rpc3"
GotState(k) == CASE k = 1 -> "got1" [] k = 2 -> "got2" [] k = 3 -> "got3"
Phases == 1..3

\* The series of one label set under each gauge of a family, in the order
\* the code sets them.
Group(fam, gauges, u, nic, user) ==
    [g \in 1..Len(gauges) |-> Series(fam, gauges[g], u, nic, user)]

\* The per-user gauges of entries j..nUsers-1 of PerUserStats.
RECURSIVE PerUserFrom(_, _, _, _)
PerUserFrom(u, i, j, nUsers) ==
    IF j >= nUsers THEN <<>>
    ELSE Group("per_user", PerUserGauges, u, i, j) \o PerUserFrom(u, i, j + 1, nUsers)

\* The gauge writes of one NIC entry, in the order of the loop body: the
\* seven NIC gauges, the per-user gauges of every entry of PerUserStats but
\* the last, the unknown-user gauges from the last.
NicEntry(u, i, nUsers) ==
    Group("nic", NicGauges, u, i, 0)
        \o PerUserFrom(u, i, 1, nUsers)
        \o Group("unknown_user", UnknownUserGauges, u, i, 0)

\* getNicCounter: the writes one successful GetFastrgSystemInfo response
\* leads to, entry by entry (each is a registry operation of its own,
\* outside nmm.mu). NicsFrom lists those of entries i..nNics-1.
RECURSIVE NicsFrom(_, _, _, _)
NicsFrom(u, i, nNics, nUsers) ==
    IF i >= nNics THEN <<>>
    ELSE NicEntry(u, i, nUsers) \o NicsFrom(u, i + 1, nNics, nUsers)

NicSeries(u, nNics, nUsers) == NicsFrom(u, 0, nNics, nUsers)

\* The writes of the sessions (leases) j..nUsers of a response.
RECURSIVE UsersFrom(_, _, _, _, _)
UsersFrom(fam, gauges, u, j, nUsers) ==
    IF j > nUsers THEN <<>>
    ELSE Group(fam, gauges, u, -1, j) \o UsersFrom(fam, gauges, u, j + 1, nUsers)

\* getPPPoESessionStats: the four gauges of each session inside the loop,
\* then the eight totals.
PPPoESeries(u, nUsers) ==
    UsersFrom("pppoe_session", PPPoESessionGauges, u, 1, nUsers)
        \o Group("pppoe_total", PPPoETotalGauges, u, -1, 0)

\* getDhcpLeaseStats: the current and the maximal lease count of each user
\* inside the loop (a server that is on, or off with a range that parses),
\* then the three totals.
DhcpSeries(u, nUsers) ==
    UsersFrom("dhcp_user", DhcpUserGauges, u, 1, nUsers)
        \o Group("dhcp_total", DhcpTotalGauges, u, -1, 0)

\* The responses scraped: every NIC entry carries the statistics of one user
\* and the unknown-user entry; one PPPoE session, one DHCP server.
StatsUsers == 2
Sessions == 1

\* What phase k writes for node u, in order.
PhaseSeries(k, u, nNics) ==
    CASE k = 1 -> NicSeries(u, nNics, StatsUsers)
      [] k = 2 -> PPPoESeries(u, Sessions)
      [] k = 3 -> DhcpSeries(u, Sessions)

\* monitorLoop, case <-ticker.C: collectMetrics issues the first scrape RPC
\* (the select may take this case even when the context is already done).
ScrapeTick(m) ==
    /\ mons[m].loop = "select"
    /\ mons' = [mons EXCEPT ![m].loop = "rpc1"]
    /\ UNCHANGED <<now, nodes, monitors, mu, series, calls, sweep>> /\ Quiet

\* A scrape RPC fails (error, 5 s timeout, cancelled context): the tick is abandoned.
ScrapeFail(m) ==
    /\ mons[m].loop \in {"rpc1", "rpc2", "rpc3"}
    /\ mons' = [mons EXCEPT ![m].loop = "select"]
    /\ UNCHANGED <<now, nodes, monitors, mu, series, calls, sweep>> /\ Quiet

\* A scrape RPC returns its response.
ScrapeResponse(m) ==
    /\ ~mons[m].cancelled
    /\ \E k \in Phases :
         /\ mons[m].loop = RpcState(k)
         /\ mons' = [mons EXCEPT ![m].loop = GotState(k)]
    /\ UNCHANGED <<now, nodes, monitors, mu, series, calls, sweep>> /\ Quiet

\* The goroutine makes the next gauge write from the response in hand (a
\* GetFastrgSystemInfo response has nNics entries); after the last write of
\* the response it issues the next RPC (or returns to the select after the
\* third). Nothing holds nmm.mu here, so a stop may fall between two writes.
ScrapeWrite(m, nNics) ==
    /\ \E k \in Phases :
         /\ mons[m].loop = GotState(k)
         /\ (k = 1 /\ mons[m].at > 0) => mons[m].n = nNics
         /\ LET w == PhaseSeries(k, mons[m].nodeUUID, nNics)
                i == mons[m].at + 1
            IN  /\ series' = series \cup {w[i]}
                /\ mons' = [mons EXCEPT ![m] =
                               IF i < Len(w)
                               THEN [@ EXCEPT !.n = IF k = 1 THEN nNics ELSE 0, !.at = i]
                               ELSE [@ EXCEPT !.n = 0, !.at = 0,
                                              !.loop = IF k < 3 THEN RpcState(k + 1)
                                                       ELSE "select"]]
    /\ UNCHANGED <<now, nodes, monitors, mu, calls, sweep>> /\ Quiet

\* monitorLoop, case <-nm.ctx.Done(): the goroutine returns.
MonitorExit(m) ==
    /\ mons[m].loop = "select" /\ mons[m].cancelled
    /\ mons' = [mons EXCEPT ![m].loop = "exited"]
    /\ UNCHANGED <<now, nodes, monitors, mu, series, calls, sweep>> /\ Quiet

\* ------------------------------------------------------------- REST auth
TokenLifetime == 7200   \* generateToken: exp = now + 2 h
MwTimeout     == 2      \* context of the middleware's blacklist read, in seconds
LogoutTimeout == 5      \* context of Logout's Grant and Put, in seconds

\* An Authorization header: absent, or a token with its exp claim and whether
\* its signature verifies under jwtSecret.
NoHeader == [present |-> FALSE, signed |-> FALSE, exp |-> 0]

\* generateToken at clock reading t.
generateToken(t) == [present |-> TRUE, signed |-> TRUE, exp |-> t + TokenLifetime]

\* A token nobody signed with jwtSecret.
ForgedToken == [present |-> TRUE, signed |-> FALSE, exp |-> TokenLifetime]

\* The clock readings at which Login issued the tokens that requests present.
IssueTimes == {0}

Tokens  == {generateToken(t) : t \in IssueTimes}
Headers == {NoHeader, ForgedToken} \cup Tokens

\* validateToken at clock reading t: jwt.Parse checks the signature and t < exp.
validateToken(h, t) == h.signed /\ t < h.exp

\* The clock readings that matter to a token: its issue, the seconds around its
\* expiry, and the latest moment a lease granted for it can end.
AuthInstants ==
    IssueTimes \cup UNION {(h.exp - 1)..(h.exp + LogoutTimeout) : h \in Tokens}

\* A request in flight. kind is "api" (any protected handler) or "logout";
\* t0 is when the context of its pending store calls was created; ttl and
\* granted are Logout's locals; late is a ghost: the request arrived after a
\* Logout for its token had answered 200.
Request(kind, h, pc, t0, late) ==
    [kind |-> kind, header |-> h, pc |-> pc, t0 |-> t0, late |-> late,
     at |-> 0, ttl |-> 0, granted |-> 0]

Serving == BagToSet(reqs)
Admit(r)       == reqs' = reqs (+) SetToBag({r})
Proceed(r, r2) == reqs' = (reqs (-) SetToBag({r})) (+) SetToBag({r2})
Answer(r)      == reqs' = reqs (-) SetToBag({r})

NoResp == [kind |-> "", header |-> NoHeader, late |-> FALSE, status |-> 0,
           error |-> "", read |-> "", validAt |-> 0, next |-> FALSE]

\* What a step did to a request: the response it sent (status, error) or the
\* call of c.Next() (next), with what the blacklist read returned (read).
Resp(kind, h, late, status, error, read, validAt, next) ==
    [kind |-> kind, header |-> h, late |-> late, status |-> status,
     error |-> error, read |-> read, validAt |-> validAt, next |-> next]

Respond(r, status, error, read, next) ==
    resp' = Resp(r.kind, r.header, r.late, status, error, read, r.t0, next)

\* AuthMiddlewareWithBlacklist, lines 300-313: header present, validateToken.
MwBegin(kind, h) ==
    /\ BagCardinality(reqs) < MaxRequests
    /\ LET r == Request(kind, h, "get", now, h \in loggedOut) IN
       IF ~h.present THEN
            Respond(r, 401, "Missing Authorization header", "", FALSE) /\ UNCHANGED reqs
       ELSE IF ~validateToken(h, now) THEN
            Respond(r, 401, "Invalid token", "", FALSE) /\ UNCHANGED reqs
       ELSE Admit(r) /\ resp' = NoResp
    /\ UNCHANGED <<now, blacklist, loggedOut, registryVars, planeVars>>

\* Fault: a failed blacklist read lets the request through.
MwGetFailOpen(r, ok) ==
    /\ r.pc = "get"
    /\ ok => now - r.t0 <= MwTimeout
    /\ IF ok /\ r.header \in DOMAIN blacklist THEN
            Answer(r) /\ Respond(r, 401, "Token has been revoked", "hit", FALSE)
       ELSE IF r.kind = "logout" THEN
            /\ Proceed(r, [r EXCEPT !.pc = "logout"])
            /\ Respond(r, 0, "", IF ok THEN "miss" ELSE "error", TRUE)
       ELSE Answer(r) /\ Respond(r, 200, "", IF ok THEN "miss" ELSE "error", TRUE)
    /\ UNCHANGED <<now, blacklist, loggedOut, registryVars, planeVars>>

\* Lines 316-335: Get token_blacklist/{token} under a 2 s context; error -> 500,
\* found -> 401, else c.Next() runs the handler.
MwGet(r, ok) ==
    /\ r.pc = "get"
    /\ ok => now - r.t0 <= MwTimeout
    /\ IF ~ok THEN
            Answer(r) /\ Respond(r, 500, "Authentication service unavailable", "error", FALSE)
       ELSE IF r.header \in DOMAIN blacklist THEN
            Answer(r) /\ Respond(r, 401, "Token has been revoked", "hit", FALSE)
       ELSE IF r.kind = "logout" THEN
            Proceed(r, [r EXCEPT !.pc = "logout"]) /\ Respond(r, 0, "", "miss", TRUE)
       ELSE Answer(r) /\ Respond(r, 200, "", "miss", TRUE)
    /\ UNCHANGED <<now, blacklist, loggedOut, registryVars, planeVars>>

\* Logout, lines 493-505: the header again, validateToken again.
LogoutValidate(r) ==
    /\ r.pc = "logout"
    /\ IF ~r.header.present THEN
            Answer(r) /\ Respond(r, 400, "No token provided", "", FALSE)
       ELSE IF ~validateToken(r.header, now) THEN
            Answer(r) /\ Respond(r, 401, "Invalid token", "", FALSE)
       ELSE Proceed(r, [r EXCEPT !.pc = "ttl"]) /\ resp' = NoResp
    /\ UNCHANGED <<now, blacklist, loggedOut, registryVars, planeVars>>

\* Fault: the entry is leased for a token's whole lifetime, whatever has elapsed of it.
LogoutTtlWholeLifetime(r) ==
    /\ r.pc = "ttl"
    /\ Proceed(r, [r EXCEPT !.pc = "grant", !.at = now, !.ttl = TokenLifetime, !.t0 = now])
    /\ resp' = NoResp
    /\ UNCHANGED <<now, blacklist, loggedOut, registryVars, planeVars>>

\* Lines 511-518, 537: ttl := exp - time.Now().Unix(); with nothing left of the
\* token nothing is written and the answer is 200.
LogoutTtl(r) ==
    /\ r.pc = "ttl"
    /\ LET ttl == r.header.exp - now IN
       IF ttl > 0
       THEN /\ Proceed(r, [r EXCEPT !.pc = "grant", !.at = now, !.ttl = ttl, !.t0 = now])
            /\ resp' = NoResp
            /\ UNCHANGED loggedOut
       ELSE /\ Answer(r)
            /\ Respond(r, 200, "Logged out successfully", "", FALSE)
            /\ loggedOut' = loggedOut \cup {r.header}
    /\ UNCHANGED <<now, blacklist, registryVars, planeVars>>

\* Lines 521-526: Grant(ctx, ttl) under the 5 s context.
LogoutGrant(r, ok) ==
    /\ r.pc = "grant"
    /\ ok => now - r.t0 <= LogoutTimeout
    /\ IF ok
       THEN Proceed(r, [r EXCEPT !.pc = "put", !.granted = now]) /\ resp' = NoResp
       ELSE Answer(r) /\ Respond(r, 500, "Failed to logout", "", FALSE)
    /\ UNCHANGED <<now, blacklist, loggedOut, registryVars, planeVars>>

\* Lines 528-537: Put token_blacklist/{token} with the lease, then answer 200.
LogoutPut(r, ok) ==
    /\ r.pc = "put"
    /\ ok => now - r.t0 <= LogoutTimeout
    /\ Answer(r)
    /\ IF ok
       THEN /\ blacklist' = PutKey(blacklist, r.header,
                                   [at |-> r.at, ttl |-> r.ttl, granted |-> r.granted])
            /\ Respond(r, 200, "Logged out successfully", "", FALSE)
            /\ loggedOut' = loggedOut \cup {r.header}
       ELSE /\ Respond(r, 500, "Failed to logout", "", FALSE)
            /\ UNCHANGED <<blacklist, loggedOut>>
    /\ UNCHANGED <<now, registryVars, planeVars>>

\* The moment the lease of an entry ends.
LeaseEnd(lease) == lease.granted + lease.ttl

\* The store revokes a lease that has run out and deletes the key attached to it.
LeaseExpire(h) ==
    /\ h \in DOMAIN blacklist
    /\ now >= LeaseEnd(blacklist[h])
    /\ blacklist' = DelKey(blacklist, h)
    /\ resp' = NoResp
    /\ UNCHANGED <<now, reqs, loggedOut, registryVars, planeVars>>

\* Time passes, to any later clock reading.
AuthTick(t) ==
    /\ t > now
    /\ now' = t
    /\ resp' = NoResp
    /\ UNCHANGED <<blacklist, reqs, loggedOut, registryVars, planeVars>>

\* ------------------------------------------------------- user accounts
\* The usernames and passwords a registration may carry ("" is an absent field).
Usernames == {"alice", "bob"}
Passwords == {"pw1", "pw2"}

\* bcrypt.GenerateFromPassword draws a fresh salt for every call.
\* A stored value is the sequence of its parts; "" is the empty sequence.
Salts == {"s1", "s2"}
GenerateFromPassword(pw, salt) == <<"$2a$", salt, pw>>

\* getUserPassword, lines 340-353: the stored value, "" when the key is absent.
getUserPassword(name) == IF name \in DOMAIN users THEN users[name] ELSE <<>>

\* A registration in flight, with the hash it computed.
RegisterRequest(name, pw, salt) ==
    [name |-> name, password |-> pw, hash |-> GenerateFromPassword(pw, salt), pc |-> "put"]

NoRResp == [op |-> "", name |-> "", status |-> 0, error |-> "", found |-> <<>>]

\* The response of a handler of the users: error is the error or the
\* message.  found is a ghost: what users/{name} held when the response was
\* sent.
RResp(op, name, status, error) ==
    [op |-> op, name |-> name, status |-> status, error |-> error,
     found |-> getUserPassword(name)]

UserFrame == UNCHANGED <<now, registryVars, authVars, configVars, eventVars, down, utilVars>>

\* --- POST /api/register
\* Lines 436-467: bind, validate, getUserPassword, bcrypt.
RestRegisterBegin(name, pw, salt, ok) ==
    /\ BagCardinality(regs) < MaxRequests
    /\ IF name = "" \/ pw = "" THEN
            rresp' = RResp("Register", name, 400, "Username and password are required") /\ UNCHANGED regs
       ELSE IF ~ok THEN
            rresp' = RResp("Register", name, 500, "Failed to check existing user") /\ UNCHANGED regs
       ELSE IF getUserPassword(name) # <<>> THEN
            rresp' = RResp("Register", name, 409, "Username already exists") /\ UNCHANGED regs
       ELSE /\ regs' = regs (+) SetToBag({RegisterRequest(name, pw, salt)})
            /\ rresp' = NoRResp
    /\ UNCHANGED users /\ UserFrame

\* Lines 470-476: Put users/{username}.
RestRegisterPut(r, ok) ==
    /\ r \in BagToSet(regs)
    /\ regs' = regs (-) SetToBag({r})
    /\ IF ok
       THEN /\ rresp' = RResp("Register", r.name, 200, "User registered successfully")
            /\ users' = PutKey(users, r.name, r.hash)
       ELSE /\ rresp' = RResp("Register", r.name, 500, "Failed to create user")
            /\ UNCHANGED users
    /\ UserFrame

\* --- POST /api/users
\* AddUser, lines 663-685: bind (no field is required), bcrypt, Put
\* users/{username} whatever the key holds.
AddUser(name, pw, salt, ok) ==
    /\ IF ok
       THEN /\ rresp' = RResp("AddUser", name, 200, "User created")
            /\ users' = PutKey(users, name, GenerateFromPassword(pw, salt))
       ELSE /\ rresp' = RResp("AddUser", name, 500, "Failed to save user")
            /\ UNCHANGED users
    /\ UNCHANGED regs /\ UserFrame

\* --- DELETE /api/users/{username}
\* DeleteUser, lines 699-708: Delete users/{username}, 200 whether or not
\* the key was there.
DeleteUser(name, ok) ==
    /\ IF ok
       THEN /\ rresp' = RResp("DeleteUser", name, 200, "User deleted")
            /\ users' = DelKey(users, name)
       ELSE /\ rresp' = RResp("DeleteUser", name, 500, "Failed to delete user")
            /\ UNCHANGED users
    /\ UNCHANGED regs /\ UserFrame

\* tools/create_user: Put users/admin with the hash of "secret" (the tool
\* panics when the Put fails, and the store is as it was).
create_user(salt, ok) ==
    /\ IF ok
       THEN users' = PutKey(users, "admin", GenerateFromPassword("secret", salt))
       ELSE UNCHANGED users
    /\ rresp' = NoRResp
    /\ UNCHANGED regs /\ UserFrame

\* ------------------------------------------------------ decimal strings
\* A Go string that is parsed or formatted is held as the sequence of its
\* characters: "12" is <<"1", "2">>.
DigitChars == <<"0", "1", "2", "3", "4", "5", "6", "7", "8", "9">>

IsDigit(c) == \E d \in 1..10 : DigitChars[d] = c
DigitVal(c) == (CHOOSE d \in 1..10 : DigitChars[d] = c) - 1

\* The value of a run of digits, most significant first.
RECURSIVE DigitsVal(_)
DigitsVal(s) ==
    IF s = <<>> THEN 0 ELSE DigitsVal(SubSeq(s, 1, Len(s) - 1)) * 10 + DigitVal(s[Len(s)])

RECURSIVE FormatDigits(_)
FormatDigits(n) ==
    IF n < 10 THEN <<DigitChars[n + 1]>>
    ELSE Append(FormatDigits(n \div 10), DigitChars[(n % 10) + 1])

\* fmt.Sprintf("%d", n).
Sprintf(n) == IF n < 0 THEN <<"-">> \o FormatDigits(-n) ELSE FormatDigits(n)

\* The longest prefix of s made of digits.
RECURSIVE DigitPrefix(_)
DigitPrefix(s) ==
    IF s # <<>> /\ IsDigit(s[1]) THEN <<s[1]>> \o DigitPrefix(Tail(s)) ELSE <<>>

\* strconv.Atoi(s): an optional sign, then digits only, at least one.
Atoi(s) ==
    LET signed == s # <<>> /\ s[1] \in {"+", "-"}
        body   == IF signed THEN Tail(s) ELSE s
    IN  IF body # <<>> /\ DigitPrefix(body) = body
        THEN [ok |-> TRUE, n |-> IF signed /\ s[1] = "-" THEN -DigitsVal(body) ELSE DigitsVal(body)]
        ELSE [ok |-> FALSE, n |-> 0]

\* fmt.Sscanf(s, "%d", &n): leading spaces, an optional sign, then the longest
\* run of digits (at least one); what follows the run is left unread.
RECURSIVE SkipSpaces(_)
SkipSpaces(s) == IF s # <<>> /\ s[1] = " " THEN SkipSpaces(Tail(s)) ELSE s

Sscanf(s) ==
    LET t      == SkipSpaces(s)
        signed == t # <<>> /\ t[1] \in {"+", "-"}
        body   == IF signed THEN Tail(t) ELSE t
        run    == DigitPrefix(body)
    IN  IF run # <<>>
        THEN [ok |-> TRUE, n |-> IF signed /\ t[1] = "-" THEN -DigitsVal(run) ELSE DigitsVal(run)]
        ELSE [ok |-> FALSE, n |-> 0]

\* ------------------------------------------------------- address utilities
\* strings.TrimSpace over the white space the inputs carry.
IsSpace(c) == c \in {" ", "\t"}

RECURSIVE TrimLeft(_)
TrimLeft(s) == IF s # <<>> /\ IsSpace(s[1]) THEN TrimLeft(Tail(s)) ELSE s

RECURSIVE TrimRight(_)
TrimRight(s) ==
    IF s # <<>> /\ IsSpace(s[Len(s)]) THEN TrimRight(SubSeq(s, 1, Len(s) - 1)) ELSE s

TrimSpace(s) == TrimRight(TrimLeft(s))

\* strings.Split(s, sep) for a separator of one character: the pieces between
\* the separators, one more than there are separators.
RECURSIVE Split(_, _)
Split(s, sep) ==
    IF \A i \in 1..Len(s) : s[i] # sep THEN <<s>>
    ELSE LET i == CHOOSE j \in 1..Len(s) : s[j] = sep /\ \A k \in 1..(j - 1) : s[k] # sep
         IN  <<SubSeq(s, 1, i - 1)>> \o Split(SubSeq(s, i + 1, Len(s)), sep)

\* A net.IP is the sequence of its bytes; nil is the empty sequence.
NilIP == <<>>

\* net.IPv4(a, b, c, d): the 16-byte form, the address behind the v4InV6Prefix.
IPv4(a, b, c, d) == <<0, 0, 0, 0, 0, 0, 0, 0, 0, 0, 255, 255, a, b, c, d>>

\* One field of a dotted quad: one to three digits, no leading zero, at most 255.
IsOctet(f) ==
    /\ Len(f) \in 1..3
    /\ DigitPrefix(f) = f
    /\ Len(f) > 1 => f[1] # "0"
    /\ DigitsVal(f) <= 255

\* net.ParseIP on a text without ':' (only the IPv4 form can match): four
\* fields, else nil.
ParseIP(s) ==
    LET f == Split(s, ".") IN
    IF Len(f) = 4 /\ \A i \in 1..4 : IsOctet(f[i])
    THEN IPv4(DigitsVal(f[1]), DigitsVal(f[2]), DigitsVal(f[3]), DigitsVal(f[4]))
    ELSE NilIP

\* IP.To4: the four bytes of an IPv4 address in either form, else nil.
To4Head(ip) == IF Len(ip) >= 4 THEN SubSeq(ip, 1, 4) ELSE NilIP

To4(ip) ==
    IF Len(ip) = 4 THEN ip
    ELSE IF /\ Len(ip) = 16
            /\ \A i \in 1..10 : ip[i] = 0
            /\ ip[11] = 255 /\ ip[12] = 255
         THEN SubSeq(ip, 13, 16)
    ELSE NilIP

\* IP.String of nil and of an address with an IPv4 form (dotted decimal).
IPString(ip) ==
    LET b == To4(ip) IN
    IF Len(ip) = 0 THEN <<"<", "n", "i", "l", ">">>
    ELSE IF b # NilIP
         THEN Sprintf(b[1]) \o <<".">> \o Sprintf(b[2]) \o <<".">> \o Sprintf(b[3])
                \o <<".">> \o Sprintf(b[4])
    ELSE <<"?">>

\* binary.BigEndian.Uint32: b[0]<<24 | b[1]<<16 | b[2]<<8 | b[3].  The uint32
\* is held as its two 16-bit halves: its value is hi * 2^16 + lo.
Uint32(b) == [hi |-> (b[1] * 256 + b[2]) % 65536, lo |-> (b[3] * 256 + b[4]) % 65536]

\* What a call returned: none yet.
NoRet == [fn |-> ""]

\* ParseIPRange, lines 147-157.
ParseIPRangeUntrimmed(ipRange) ==
    LET parts == Split(TrimSpace(ipRange), "-") IN
    IF Len(parts) # 2
    THEN [fn |-> "ParseIPRange", start |-> NilIP, end |-> NilIP, err |-> TRUE]
    ELSE [fn |-> "ParseIPRange", start |-> ParseIP(parts[1]), end |-> ParseIP(parts[2]),
          err |-> FALSE]

ParseIPRange(ipRange) ==
    LET parts == Split(TrimSpace(ipRange), "-") IN
    IF Len(parts) # 2
    THEN [fn |-> "ParseIPRange", start |-> NilIP, end |-> NilIP, err |-> TRUE]
    ELSE [fn |-> "ParseIPRange", start |-> ParseIP(TrimSpace(parts[1])),
          end |-> ParseIP(TrimSpace(parts[2])), err |-> FALSE]

\* IPv4toInt, lines 159-165.
IPv4toInt(ip) ==
    LET ipv4Bytes == To4(ip) IN
    IF ipv4Bytes = NilIP
    THEN [fn |-> "IPv4toInt", n |-> [hi |-> 0, lo |-> 0], err |-> TRUE]
    ELSE [fn |-> "IPv4toInt", n |-> Uint32(ipv4Bytes), err |-> FALSE]

\* The texts ParseIPRange is called with: two words around a dash with any
\* padding, and texts with no dash or with two.
Pads  == {<<>>, <<" ">>, <<" ", "\t">>}
Words == {<<"1", "0", ".", "0", ".", "0", ".", "1">>,
          <<"1", "9", "2", ".", "1", "6", "8", ".", "3", ".", "2", "5", "4">>,
          <<"1", "0", ".", "0", ".", "1">>,
          <<"x">>,
          <<>>}
Dash == <<"-">>

RangeTexts ==
    {p[1] \o w[1] \o p[2] \o Dash \o p[3] \o w[2] \o p[4] :
        p \in [1..4 -> Pads], w \in [1..2 -> Words]}
    \cup {p \o w \o q : p, q \in Pads, w \in Words}
    \cup {w[1] \o Dash \o w[2] \o Dash \o w[3] : w \in [1..3 -> Words]}
    \cup {w[1] \o <<" ">> \o w[2] : w \in [1..2 -> Words]}

\* The addresses IPv4toInt is called with: IPv4 addresses in both forms, an
\* IPv6 address (2001:db8::1), nil, and a slice of no valid length.
Octets == {0, 1, 168, 255}

NotIPv4 == {<<32, 1, 13, 184, 0, 0, 0, 0, 0, 0, 0, 0, 0, 0, 0, 1>>, NilIP, <<10, 0, 0, 0, 1>>}

Addresses ==
    {IPv4(a, b, c, d) : a, b, c, d \in Octets}
    \cup {<<a, b, c, d>> : a, b, c, d \in Octets}
    \cup NotIPv4

UtilInputs ==
    {[fn |-> "ParseIPRange", in |-> s] : s \in RangeTexts}
    \cup {[fn |-> "IPv4toInt", in |-> ip] : ip \in Addresses}

UtilFrame == UNCHANGED <<now, registryVars, authVars, configVars, eventVars, down, userVars>>

CallParseIPRange ==
    /\ arg # <<>> /\ arg.fn = "ParseIPRange" /\ ret = NoRet
    /\ ret' = ParseIPRange(arg.in)
    /\ UNCHANGED arg /\ UtilFrame

CallIPv4toInt ==
    /\ arg # <<>> /\ arg.fn = "IPv4toInt" /\ ret = NoRet
    /\ ret' = IPv4toInt(arg.in)
    /\ UNCHANGED arg /\ UtilFrame

\* ------------------------------------------------------------- HSI records
\* One node's configuration plane: the keys configs/n1/hsi/, user_counts/n1/
\* and commands/n1/.
ConfigNode == "n1"

\* The user ids and VLAN ids requests carry ("" is a missing field).
UserIds == {<<"1">>, <<"2">>, <<"x">>}
VlanIds == {"100", "200"}

\* etcd returns a prefix read in key order.
UserOrder == <<(<<"1">>), (<<"2">>), (<<"x">>)>>

\* HSIConfig: the request body of POST / PUT (the remaining required fields
\* take one non-empty value each).
HSIConfig(u, v) ==
    [user_id |-> u, vlan_id |-> v, account_name |-> "admin", password |-> "secret",
     dhcp_addr_pool |-> "192.168.3.100-192.168.3.200",
     dhcp_subnet |-> "255.255.255.0", dhcp_gateway |-> "192.168.3.1"]

\* Fault: every record is stamped enableStatus "enabled".
HSIConfigWithMetadataEnabled(cfg, version, by, at, status) ==
    [config |-> cfg,
     metadata |-> [node |-> ConfigNode, resourceVersion |-> version, updatedBy |-> by,
                   updatedAt |-> at, enableStatus |-> "enabled"]]

\* HSIConfigWithMetadata as the handlers build it.
HSIConfigWithMetadata(cfg, version, by, at, status) ==
    [config |-> cfg,
     metadata |-> [node |-> ConfigNode, resourceVersion |-> version, updatedBy |-> by,
                   updatedAt |-> at, enableStatus |-> status]]

\* SubscriberCountData as UpdateNodeSubscriberCount builds it.
SubscriberCountData(n, version, by, at) ==
    [subscriber_count |-> Sprintf(n),
     metadata |-> [node |-> ConfigNode, resourceVersion |-> version, updatedBy |-> by,
                   updatedAt |-> at]]

\* GetSubscriberCount: -1 when the read fails, no record is stored or the
\* stored count does not parse.
GetSubscriberCount(ok) ==
    IF ~ok \/ ConfigNode \notin DOMAIN counts THEN -1
    ELSE LET a == Atoi(counts[ConfigNode].subscriber_count) IN
         IF a.ok THEN a.n ELSE -1

\* The cap every HSI and command handler applies after GetSubscriberCount.
ExceedsCount(sc, u) == sc >= 0 /\ Atoi(u).ok /\ Atoi(u).n > sc

\* Fault: the current version is handed back without the increment.
getNextResourceVersionSame(kvs) ==
    IF kvs = <<>> THEN <<"1">> ELSE kvs[1].metadata.resourceVersion

\* getNextResourceVersion on the value read under a key (kvs is <<>> or <<rec>>).
getNextResourceVersion(kvs) ==
    IF kvs = <<>> THEN <<"1">>
    ELSE LET currentVersion == kvs[1].metadata.resourceVersion IN
         IF currentVersion = <<>> \/ ~Sscanf(currentVersion).ok THEN <<"2">>
         ELSE Sprintf(Sscanf(currentVersion).n + 1)

\* What a Get of configs/n1/hsi/{u} and of user_counts/n1/ returns.
ConfigKvs(u) == IF u \in DOMAIN configs THEN <<configs[u]>> ELSE <<>>
CountKvs == IF ConfigNode \in DOMAIN counts THEN <<counts[ConfigNode]>> ELSE <<>>

\* The prefix read of configs/n1/hsi/, in key order.
RECURSIVE ConfigRange(_, _)
ConfigRange(cf, i) ==
    IF i > Len(UserOrder) THEN <<>>
    ELSE (IF UserOrder[i] \in DOMAIN cf THEN <<cf[UserOrder[i]]>> ELSE <<>>)
         \o ConfigRange(cf, i + 1)

\* isVlanInUse: the first record in key order that holds vlanId under another user id.
RECURSIVE isVlanInUseFrom(_, _, _, _)
isVlanInUseFrom(kvs, i, vlanId, currentUserId) ==
    IF i > Len(kvs) THEN [inUse |-> FALSE, user |-> <<>>]
    ELSE IF kvs[i].config.vlan_id = vlanId /\ kvs[i].config.user_id # currentUserId
         THEN [inUse |-> TRUE, user |-> kvs[i].config.user_id]
         ELSE isVlanInUseFrom(kvs, i + 1, vlanId, currentUserId)

\* Fault: the scan looks for the VLAN under the same user id.
isVlanInUseOwn(vlanId, currentUserId) ==
    IF currentUserId \in DOMAIN configs /\ configs[currentUserId].config.vlan_id = vlanId
    THEN [inUse |-> TRUE, user |-> currentUserId]
    ELSE [inUse |-> FALSE, user |-> <<>>]

isVlanInUse(vlanId, currentUserId) ==
    isVlanInUseFrom(ConfigRange(configs, 1), 1, vlanId, currentUserId)

\* Fault: the status is looked up under a key that holds nothing.
isHSIConfigEnabledWrongKey(u) == "unknown"

\* isHSIConfigEnabled: "unknown" when no record is stored.
isHSIConfigEnabled(u) ==
    IF u \notin DOMAIN configs THEN "unknown" ELSE configs[u].metadata.enableStatus

\* ------------------------------------------------- HSI and command handlers
NoConfig == HSIConfig(<<>>, "")

\* ghost: what is remembered of the response that had just been sent when a
\* request came in.
NoSent == [op |-> "", user |-> <<>>, cfg |-> NoConfig, status |-> 0, prior |-> <<>>,
           clean |-> FALSE]
Sent(h) == [op |-> h.op, user |-> h.user, cfg |-> h.cfg, status |-> h.status,
            prior |-> h.prior, clean |-> h.clean]

\* The response of a handler: status and error (or message), the user a 409
\* names, for a successful write the key and the resourceVersion it stored
\* (key <<>> otherwise), for a successful read the body.  prior and after are
\* ghosts: what the key held when the write landed; the request's after.
NoHResp == [op |-> "", user |-> <<>>, cfg |-> NoConfig, n |-> 0, status |-> 0, error |-> "",
            holder |-> <<>>, key |-> <<>>, version |-> <<>>, prior |-> <<>>, clean |-> FALSE,
            body |-> <<>>, after |-> NoSent]

\* A request in flight: op, the user id of its path or body, the submitted
\* config, its position, and its locals (resourceVersion, enableStatus, n:
\* the requested count, or the timestamp of the envelope being built, and
\* keys: the key suffixes a prefix read returned).  clean and after are
\* ghosts: none of its store calls has failed; the response that had just
\* been sent when the request came in.
HsiRequest(op, u, cfg, n) ==
    [op |-> op, user |-> u, cfg |-> cfg, n |-> n, pc |-> "begin",
     version |-> <<>>, status |-> "", clean |-> TRUE, keys |-> <<>>, after |-> NoSent]

HsiServing == BagToSet(hsi)

\* ghost: a request is admitted while another is still in flight.
HsiAdmit(r) ==
    /\ hsi' = hsi (+) SetToBag({r})
    /\ written' = [written EXCEPT !.overlap = @ \/ hsi # EmptyBag]
HsiProceed(r, r2) == hsi' = (hsi (-) SetToBag({r})) (+) SetToBag({r2})
HsiAnswer(r)      == hsi' = hsi (-) SetToBag({r})

HsiCanAccept == IF serial THEN hsi = EmptyBag ELSE BagCardinality(hsi) < MaxRequests

HResp(r, status, error) ==
    IF r.op \notin watch THEN NoHResp
    ELSE [NoHResp EXCEPT !.op = r.op, !.user = r.user, !.cfg = r.cfg, !.n = r.n,
                         !.status = status, !.error = error, !.clean = r.clean,
                         !.after = r.after]

\* The keys whose writes are versioned: the HSI keys by user id, and the count.
CountKey == <<"user_counts">>
VersionedKeys == UserIds \cup {CountKey}

\* A successful versioned write of key k: respond, and note the version stored.
HsiWrote(r, k, kvs, message) ==
    /\ hresp' = IF r.op \notin watch THEN NoHResp
                 ELSE [HResp(r, 200, message) EXCEPT
                         !.key = k, !.version = r.version, !.prior = kvs]
    /\ written' = [written EXCEPT !.last[k] = Sscanf(r.version).n]

\* The number a stored resourceVersion stands for (0 for no record).
VersionOf(kvs) ==
    IF kvs = <<>> THEN 0 ELSE Sscanf(kvs[1].metadata.resourceVersion).n

\* What the handlers leave alone.
ConfigFrame == UNCHANGED <<now, nodes, monitors, mu, mons, series, calls, reply, watch, sweep,
                           authVars, serial, eventVars, down, userVars, utilVars>>

\* Lines 881-909 and 1012-1040: the required fields of the body, in the
\* order the handlers test them.  "" when none is missing.
RequiredFields(cfg) ==
    IF cfg.user_id = <<>> THEN "User ID is required"
    ELSE IF cfg.vlan_id = "" THEN "VLAN ID is required"
    ELSE IF cfg.account_name = "" THEN "Account Name is required"
    ELSE IF cfg.password = "" THEN "Password is required"
    ELSE IF cfg.dhcp_addr_pool = "" THEN "DHCP Address Pool is required"
    ELSE IF cfg.dhcp_subnet = "" THEN "DHCP Subnet is required"
    ELSE IF cfg.dhcp_gateway = "" THEN "DHCP Gateway is required"
    ELSE ""

\* Fault: the subscriber cap is not applied.
ValidateConfigNoCap(cfg, okCount) == RequiredFields(cfg)

\* The checks Create and Update share after the body is bound: required
\* fields, then the subscriber cap (GetSubscriberCount is the first store call).
\* "" when the request passes.
ValidateConfig(cfg, okCount) ==
    IF RequiredFields(cfg) # "" THEN RequiredFields(cfg)
    ELSE IF ExceedsCount(GetSubscriberCount(okCount), cfg.user_id)
         THEN "User ID exceeds subscriber count"
    ELSE ""

\* isVlanInUse, then getUserFromToken: 500, 409 naming the holder, 401, or on.
CheckVlan(r, ok, tokenOk) ==
    LET use == isVlanInUse(r.cfg.vlan_id, r.user) IN
    IF ~ok THEN
         HsiAnswer(r) /\ hresp' = HResp(r, 500, "Failed to check VLAN availability")
    ELSE IF use.inUse THEN
         /\ HsiAnswer(r)
         /\ hresp' = IF r.op \notin watch THEN NoHResp
                      ELSE [HResp(r, 409, "Input VLAN has been already used by other user")
                              EXCEPT !.holder = use.user]
    ELSE IF ~tokenOk THEN
         HsiAnswer(r) /\ hresp' = HResp(r, 401, "Failed to get user from token")
    ELSE HsiProceed(r, [r EXCEPT !.pc = "version"]) /\ hresp' = NoHResp

\* getNextResourceVersion on the request's key.
ReadVersion(r, ok, next) ==
    IF ~ok THEN
         HsiAnswer(r) /\ hresp' = HResp(r, 500, "Failed to get resource version")
    ELSE /\ HsiProceed(r, [r EXCEPT !.pc = next,
                                    !.version = getNextResourceVersion(ConfigKvs(r.user))])
         /\ hresp' = NoHResp

\* --- POST /api/config/{nodeId}/hsi
\* Lines 868-923: bind and validate the body, GetSubscriberCount.
CreateBegin(cfg, ok) ==
    /\ HsiCanAccept
    /\ VersionOf(ConfigKvs(cfg.user_id)) < MaxVersion
    /\ LET r   == [HsiRequest("Create", cfg.user_id, cfg, 0) EXCEPT !.pc = "vlan", !.clean = ok]
           err == ValidateConfig(cfg, ok)
       IN  IF err # ""
           THEN hresp' = HResp(r, 400, err) /\ UNCHANGED <<hsi, written>>
           ELSE HsiAdmit(r) /\ hresp' = NoHResp
    /\ UNCHANGED <<configs, counts, commands>> /\ ConfigFrame

\* Lines 925-944: isVlanInUse, getUserFromToken.
CreateVlan(r, ok, tokenOk) ==
    /\ r.op = "Create" /\ r.pc = "vlan"
    /\ CheckVlan(r, ok, tokenOk)
    /\ UNCHANGED <<configs, counts, commands, written>> /\ ConfigFrame

\* Lines 946-952: getNextResourceVersion.
CreateVersion(r, ok) ==
    /\ r.op = "Create" /\ r.pc = "version"
    /\ ReadVersion(r, ok, "put")
    /\ UNCHANGED <<configs, counts, commands, written>> /\ ConfigFrame

\* Fault: the write scans for the VLAN again and refuses, in one step with the Put.
CreatePutAtomic(r, ok) ==
    /\ r.op = "Create" /\ r.pc = "put"
    /\ HsiAnswer(r)
    /\ IF ok /\ isVlanInUse(r.cfg.vlan_id, r.user).inUse
       THEN /\ hresp' = HResp(r, 409, "Input VLAN has been already used by other user")
            /\ UNCHANGED <<configs, written>>
       ELSE IF ok
       THEN /\ configs' = PutKey(configs, r.user,
                                 HSIConfigWithMetadata(r.cfg, r.version, "admin", now, "disabled"))
            /\ HsiWrote(r, r.user, ConfigKvs(r.user), "HSI config created successfully")
       ELSE /\ hresp' = HResp(r, 500, "Failed to save HSI config")
            /\ UNCHANGED <<configs, written>>
    /\ UNCHANGED <<counts, commands>> /\ ConfigFrame

\* Lines 954-980: stamp the metadata (enableStatus "disabled"), Put.
CreatePut(r, ok) ==
    /\ r.op = "Create" /\ r.pc = "put"
    /\ HsiAnswer(r)
    /\ IF ok
       THEN /\ configs' = PutKey(configs, r.user,
                                 HSIConfigWithMetadata(r.cfg, r.version, "admin", now, "disabled"))
            /\ HsiWrote(r, r.user, ConfigKvs(r.user), "HSI config created successfully")
       ELSE /\ hresp' = HResp(r, 500, "Failed to save HSI config")
            /\ UNCHANGED <<configs, written>>
    /\ UNCHANGED <<counts, commands>> /\ ConfigFrame

\* --- PUT /api/config/{nodeId}/hsi/{userId}
\* Lines 998-1060: bind and validate the body, the path's user id must be the
\* body's, GetSubscriberCount.
UpdateBegin(u, cfg, ok) ==
    /\ HsiCanAccept
    /\ u # <<>>
    /\ VersionOf(ConfigKvs(u)) < MaxVersion
    /\ LET r   == [HsiRequest("Update", u, cfg, 0) EXCEPT !.pc = "vlan", !.clean = ok]
           err == IF RequiredFields(cfg) # "" THEN RequiredFields(cfg)
                  ELSE IF cfg.user_id # u THEN "User ID mismatch"
                  ELSE ValidateConfig(cfg, ok)
       IN  IF err # ""
           THEN hresp' = HResp(r, 400, err) /\ UNCHANGED <<hsi, written>>
           ELSE HsiAdmit(r) /\ hresp' = NoHResp
    /\ UNCHANGED <<configs, counts, commands>> /\ ConfigFrame

\* Lines 1062-1081: isVlanInUse, getUserFromToken.
UpdateVlan(r, ok, tokenOk) ==
    /\ r.op = "Update" /\ r.pc = "vlan"
    /\ CheckVlan(r, ok, tokenOk)
    /\ UNCHANGED <<configs, counts, commands, written>> /\ ConfigFrame

\* Lines 1083-1089: getNextResourceVersion.
UpdateVersion(r, ok) ==
    /\ r.op = "Update" /\ r.pc = "version"
    /\ ReadVersion(r, ok, "status")
    /\ UNCHANGED <<configs, counts, commands, written>> /\ ConfigFrame

\* Lines 1091-1095: isHSIConfigEnabled.
UpdateStatus(r, ok) ==
    /\ r.op = "Update" /\ r.pc = "status"
    /\ IF ~ok THEN
            HsiAnswer(r) /\ hresp' = HResp(r, 500, "Failed to get current config status")
       ELSE /\ HsiProceed(r, [r EXCEPT !.pc = "put", !.status = isHSIConfigEnabled(r.user)])
            /\ hresp' = NoHResp
    /\ UNCHANGED <<configs, counts, commands, written>> /\ ConfigFrame

\* Lines 1097-1121: stamp the metadata (enableStatus as read), Put.
UpdatePut(r, ok) ==
    /\ r.op = "Update" /\ r.pc = "put"
    /\ HsiAnswer(r)
    /\ IF ok
       THEN /\ configs' = PutKey(configs, r.user,
                                 HSIConfigWithMetadata(r.cfg, r.version, "admin", now, r.status))
            /\ HsiWrote(r, r.user, ConfigKvs(r.user), "HSI config updated successfully")
       ELSE /\ hresp' = HResp(r, 500, "Failed to update HSI config")
            /\ UNCHANGED <<configs, written>>
    /\ UNCHANGED <<counts, commands>> /\ ConfigFrame

\* --- DELETE /api/config/{nodeId}/hsi/{userId}
\* Lines 1138-1158: GetSubscriberCount and the cap.
DeleteBegin(u, ok) ==
    /\ HsiCanAccept
    /\ u # <<>>
    /\ LET r == [HsiRequest("Delete", u, NoConfig, 0) EXCEPT !.pc = "get", !.clean = ok] IN
       IF ExceedsCount(GetSubscriberCount(ok), u)
       THEN hresp' = HResp(r, 400, "User ID exceeds subscriber count")
            /\ UNCHANGED <<hsi, written>>
       ELSE HsiAdmit(r) /\ hresp' = NoHResp
    /\ UNCHANGED <<configs, counts, commands>> /\ ConfigFrame

\* Lines 1160-1171: Get the key, 404 when it is absent.
DeleteGet(r, ok) ==
    /\ r.op = "Delete" /\ r.pc = "get"
    /\ IF ~ok THEN
            HsiAnswer(r) /\ hresp' = HResp(r, 500, "Failed to check HSI config")
       ELSE IF r.user \notin DOMAIN configs THEN
            HsiAnswer(r) /\ hresp' = HResp(r, 404, "HSI config not found")
       ELSE HsiProceed(r, [r EXCEPT !.pc = "delete"]) /\ hresp' = NoHResp
    /\ UNCHANGED <<configs, counts, commands, written>> /\ ConfigFrame

\* Fault: the delete takes the user's commands with the record.
DeleteDeleteCascade(r, ok) ==
    /\ r.op = "Delete" /\ r.pc = "delete"
    /\ HsiAnswer(r)
    /\ IF ok
       THEN /\ configs' = DelKey(configs, r.user)
            /\ commands' = [k \in {j \in DOMAIN commands : j[2] # r.user} |-> commands[k]]
            /\ hresp' = HResp(r, 200, "HSI config deleted successfully")
       ELSE /\ hresp' = HResp(r, 500, "Failed to delete HSI config")
            /\ UNCHANGED <<configs, commands>>
    /\ UNCHANGED <<counts, written>> /\ ConfigFrame

\* Lines 1173-1181: Delete the key.
DeleteDelete(r, ok) ==
    /\ r.op = "Delete" /\ r.pc = "delete"
    /\ HsiAnswer(r)
    /\ IF ok
       THEN /\ configs' = DelKey(configs, r.user)
            /\ hresp' = HResp(r, 200, "HSI config deleted successfully")
       ELSE /\ hresp' = HResp(r, 500, "Failed to delete HSI config")
            /\ UNCHANGED configs
    /\ UNCHANGED <<counts, commands, written>> /\ ConfigFrame

\* --- POST /api/pppoe/dial and /api/pppoe/hangup
Actions == {"dial", "hangup"}

\* The command envelope, as DialPPPoE / HangupPPPoE build it.
Envelope(action, u, cfg, ts) ==
    [action |-> action, user_id |-> u, vlan |-> cfg.vlan_id,
     account |-> cfg.account_name, password |-> cfg.password, timestamp |-> ts]

\* Lines 1197-1221 / 1292-1316: bind the body, GetSubscriberCount and the cap.
PppoeBegin(action, u, ok) ==
    /\ HsiCanAccept
    /\ LET r == [HsiRequest(action, u, NoConfig, 0) EXCEPT !.pc = "get", !.clean = ok] IN
       IF u = <<>> THEN
            hresp' = HResp(r, 400, "Node ID and User ID are required")
            /\ UNCHANGED <<hsi, written>>
       ELSE IF ExceedsCount(GetSubscriberCount(ok), u) THEN
            hresp' = HResp(r, 400, "User ID exceeds subscriber count")
            /\ UNCHANGED <<hsi, written>>
       ELSE HsiAdmit(r) /\ hresp' = NoHResp
    /\ UNCHANGED <<configs, counts, commands>> /\ ConfigFrame

\* The words in which the two handlers differ.
PppoeGetFailed(action) ==
    IF action = "dial" THEN "Failed to check PPPoE config" ELSE "Failed to check HSI config"
PppoeNotFound(action) ==
    IF action = "dial" THEN "PPPoE config not found" ELSE "HSI config not found"
PppoePutFailed(action) ==
    IF action = "dial" THEN "Failed to send dial command" ELSE "Failed to send hangup command"
PppoeSent(action) ==
    IF action = "dial" THEN "PPPoE dial command sent successfully"
    ELSE "PPPoE hangup command sent successfully"

\* Fault: a missing record is taken for an empty config and the handler goes on.
PppoeGetIgnoresMissing(r, ok) ==
    /\ r.op \in Actions /\ r.pc = "get"
    /\ IF ~ok THEN
            HsiAnswer(r) /\ hresp' = HResp([r EXCEPT !.clean = FALSE], 500, PppoeGetFailed(r.op))
       ELSE /\ HsiProceed(r, [r EXCEPT !.pc = "put", !.n = now,
                   !.cfg = IF r.user \in DOMAIN configs THEN configs[r.user].config
                           ELSE NoConfig])
            /\ hresp' = NoHResp
    /\ UNCHANGED <<configs, counts, commands, written>> /\ ConfigFrame

\* Lines 1223-1267 / 1318-1362: Get configs/{node}/hsi/{user}, 404 when it is
\* absent, else take the PPPoE parameters from the record and build the
\* envelope (r.n keeps its timestamp).
PppoeGet(r, ok) ==
    /\ r.op \in Actions /\ r.pc = "get"
    /\ IF ~ok THEN
            HsiAnswer(r) /\ hresp' = HResp([r EXCEPT !.clean = FALSE], 500, PppoeGetFailed(r.op))
       ELSE IF r.user \notin DOMAIN configs THEN
            HsiAnswer(r) /\ hresp' = HResp(r, 404, PppoeNotFound(r.op))
       ELSE /\ HsiProceed(r, [r EXCEPT !.pc = "put", !.n = now,
                                        !.cfg = configs[r.user].config])
            /\ hresp' = NoHResp
    /\ UNCHANGED <<configs, counts, commands, written>> /\ ConfigFrame

\* Lines 1269-1276 / 1364-1371: Put the command key.
PppoePut(r, ok) ==
    /\ r.op \in Actions /\ r.pc = "put"
    /\ HsiAnswer(r)
    /\ IF ok
       THEN /\ commands' = PutKey(commands, <<r.op, r.user>>, Envelope(r.op, r.user, r.cfg, r.n))
            /\ hresp' = HResp(r, 200, PppoeSent(r.op))
       ELSE /\ hresp' = HResp(r, 500, PppoePutFailed(r.op))
            /\ UNCHANGED commands
    /\ UNCHANGED <<configs, counts, written>> /\ ConfigFrame

\* --- PUT /api/nodes/{nodeId}/subscriber-count
\* Lines 1387-1421: bind the body, count >= 0, getUserFromToken,
\* getNextResourceVersion on user_counts/{node}/.
CountBegin(n, tokenOk, ok) ==
    /\ HsiCanAccept
    /\ VersionOf(CountKvs) < MaxVersion
    /\ LET r == [HsiRequest("CountPut", <<>>, NoConfig, n) EXCEPT
                    !.pc = "put", !.clean = ok, !.version = getNextResourceVersion(CountKvs)]
       IN  IF n < 0 THEN
                hresp' = HResp(r, 400, "Subscriber count must be non-negative")
                /\ UNCHANGED <<hsi, written>>
           ELSE IF ~tokenOk THEN
                hresp' = HResp(r, 401, "Failed to get user from token")
                /\ UNCHANGED <<hsi, written>>
           ELSE IF ~ok THEN
                hresp' = HResp(r, 500, "Failed to get resource version")
                /\ UNCHANGED <<hsi, written>>
           ELSE HsiAdmit(r) /\ hresp' = NoHResp
    /\ UNCHANGED <<configs, counts, commands>> /\ ConfigFrame

\* Fault: the count is stored one too small.
CountPutOffByOne(r, ok) ==
    /\ r.op = "CountPut" /\ r.pc = "put"
    /\ HsiAnswer(r)
    /\ IF ok
       THEN /\ counts' = PutKey(counts, ConfigNode,
                                SubscriberCountData(r.n - 1, r.version, "admin", now))
            /\ HsiWrote(r, CountKey, CountKvs, "Subscriber count updated successfully")
       ELSE /\ hresp' = HResp(r, 500, "Failed to update subscriber count")
            /\ UNCHANGED <<counts, written>>
    /\ UNCHANGED <<configs, commands>> /\ ConfigFrame

\* Lines 1423-1448: build SubscriberCountData, Put.
CountPut(r, ok) ==
    /\ r.op = "CountPut" /\ r.pc = "put"
    /\ HsiAnswer(r)
    /\ IF ok
       THEN /\ counts' = PutKey(counts, ConfigNode,
                                SubscriberCountData(r.n, r.version, "admin", now))
            /\ HsiWrote(r, CountKey, CountKvs, "Subscriber count updated successfully")
       ELSE /\ hresp' = HResp(r, 500, "Failed to update subscriber count")
            /\ UNCHANGED <<counts, written>>
    /\ UNCHANGED <<configs, commands>> /\ ConfigFrame

\* --- GET /api/nodes/{nodeId}/subscriber-count: one store call, a function
\* of the store.
GetNodeSubscriberCount(ok) ==
    IF ~ok THEN [status |-> 500, error |-> "Failed to get subscriber count", count |-> 0]
    ELSE IF CountKvs = <<>> THEN
         [status |-> 404, error |-> "Subscriber count not found", count |-> 0]
    ELSE LET p == Sscanf(CountKvs[1].subscriber_count) IN
         IF ~p.ok THEN [status |-> 500, error |-> "Failed to parse subscriber count", count |-> 0]
         ELSE [status |-> 200, error |-> "", count |-> p.n]

\* A successful read: respond with the body.
HsiRead(r, body) ==
    IF r.op \notin watch THEN NoHResp ELSE [HResp(r, 200, "") EXCEPT !.body = body]

\* --- GET /api/config/{nodeId}/hsi/{userId}
\* Lines 811-830: GetSubscriberCount and the cap.
GetHSIConfigBegin(u, ok) ==
    /\ HsiCanAccept
    /\ u # <<>>
    /\ LET r == [HsiRequest("GetHSIConfig", u, NoConfig, 0) EXCEPT
                    !.pc = "get", !.clean = ok, !.after = Sent(hresp)] IN
       IF ExceedsCount(GetSubscriberCount(ok), u)
       THEN hresp' = HResp(r, 400, "User ID exceeds subscriber count")
            /\ UNCHANGED <<hsi, written>>
       ELSE HsiAdmit(r) /\ hresp' = NoHResp
    /\ UNCHANGED <<configs, counts, commands>> /\ ConfigFrame

\* Lines 832-851: Get the key (a missing record is answered 500), unmarshal
\* the value and answer with the record and its metadata.
GetHSIConfigGet(r, ok) ==
    /\ r.op = "GetHSIConfig" /\ r.pc = "get"
    /\ HsiAnswer(r)
    /\ LET q == [r EXCEPT !.clean = @ /\ ok] IN
       hresp' = IF ~ok THEN HResp(q, 500, "Failed to get HSI config")
                 ELSE IF ConfigKvs(r.user) = <<>> THEN HResp(q, 500, "HSI config not found")
                 ELSE IF ~ParsesAsObject(ConfigKvs(r.user)[1])
                      THEN HResp(q, 500, "Failed to parse HSI config")
                 ELSE HsiRead(q, ConfigKvs(r.user))
    /\ UNCHANGED <<configs, counts, commands, written>> /\ ConfigFrame

\* The keys a prefix read of configs/n1/hsi/ returns, as their suffixes after
\* the prefix, in key order.
RECURSIVE KeyRange(_, _)
KeyRange(cf, i) ==
    IF i > Len(UserOrder) THEN <<>>
    ELSE (IF UserOrder[i] \in DOMAIN cf THEN <<UserOrder[i]>> ELSE <<>>) \o KeyRange(cf, i + 1)

\* Fault: an id that is not an integer is passed over as well.
RECURSIVE AppendUserIdsIntegersOnly(_, _, _)
AppendUserIdsIntegersOnly(keys, i, subscriberCount) ==
    IF i > Len(keys) THEN <<>>
    ELSE LET userId == keys[i]
             skip   == \/ userId = <<>>
                       \/ subscriberCount >= 0 /\ ~Atoi(userId).ok
                       \/ subscriberCount >= 0 /\ Atoi(userId).n > subscriberCount
         IN  (IF skip THEN <<>> ELSE <<userId>>)
                \o AppendUserIdsIntegersOnly(keys, i + 1, subscriberCount)

\* The loop of GetHSIUserIds over the keys read: a key no longer than the
\* prefix is passed over, and with a count set (>= 0) so is an id that
\* strconv.Atoi parses above it.
RECURSIVE AppendUserIds(_, _, _)
AppendUserIds(keys, i, subscriberCount) ==
    IF i > Len(keys) THEN <<>>
    ELSE LET userId == keys[i]
             skip   == \/ userId = <<>>
                       \/ subscriberCount >= 0 /\ Atoi(userId).ok /\ Atoi(userId).n > subscriberCount
         IN  (IF skip THEN <<>> ELSE <<userId>>) \o AppendUserIds(keys, i + 1, subscriberCount)

\* --- GET /api/config/{nodeId}/hsi/users
\* Lines 752-765: the prefix read of configs/{nodeId}/hsi/; the handler keeps
\* the keys it returned.
GetHSIUserIdsGet(ok) ==
    /\ HsiCanAccept
    /\ LET r == [HsiRequest("GetHSIUserIds", <<>>, NoConfig, 0) EXCEPT
                    !.pc = "count", !.clean = ok, !.keys = KeyRange(configs, 1)] IN
       IF ~ok
       THEN hresp' = HResp(r, 500, "Failed to get HSI user IDs") /\ UNCHANGED <<hsi, written>>
       ELSE HsiAdmit(r) /\ hresp' = NoHResp
    /\ UNCHANGED <<configs, counts, commands>> /\ ConfigFrame

\* Lines 767-794: GetSubscriberCount (a failed read counts as no count),
\* then the loop over the keys read before.
GetHSIUserIdsCount(r, okCount) ==
    /\ r.op = "GetHSIUserIds" /\ r.pc = "count"
    /\ HsiAnswer(r)
    /\ hresp' = HsiRead([r EXCEPT !.clean = @ /\ okCount],
                         AppendUserIds(r.keys, 1, GetSubscriberCount(okCount)))
    /\ UNCHANGED <<configs, counts, commands, written>> /\ ConfigFrame

\* Another client of the store writes user_counts/n1/ with a count that is
\* not a number, or is negative (GetSubscriberCount skips both).
CountTexts == {<<"x">>, <<"-", "1">>}

PutCount(text) ==
    /\ hsi = EmptyBag
    /\ ConfigNode \notin DOMAIN counts
    /\ counts' = PutKey(counts, ConfigNode,
                        [SubscriberCountData(0, <<"1">>, "admin", now) EXCEPT
                            !.subscriber_count = text])
    /\ hresp' = NoHResp
    /\ UNCHANGED <<configs, commands, hsi, written>> /\ ConfigFrame

\* ------------------------------------------------- the failed-event pipeline
HistoryTTL == 604800   \* processFailedEvent: Grant(ctx, 604800)

\* The value of a key under failed_events/: JSON text.  wellformed: it parses
\* into a FailedEvent; the members give the fields it sets (a field it leaves
\* out is written here as its zero value); extra: it has a member FailedEvent
\* does not know.
EventValue(wellformed, node, ts, type, extra) ==
    [wellformed |-> wellformed, node_id |-> node, timestamp |-> ts, event_type |-> type,
     extra |-> extra]

\* What a DELETE event carries (no previous value is asked for), and text
\* that is not JSON.
NoValue == EventValue(FALSE, "", 0, "", FALSE)

\* FailedEvent (the fields the pipeline or its readers look at).
FailedEvent(node, ts, type) == [node_id |-> node, timestamp |-> ts, event_type |-> type]

\* json.Unmarshal into a FailedEvent: unknown members are dropped.
Unmarshal(v) ==
    IF ~v.wellformed THEN [ok |-> FALSE, event |-> FailedEvent("", 0, "")]
    ELSE [ok |-> TRUE, event |-> FailedEvent(v.node_id, v.timestamp, v.event_type)]

\* json.Marshal of a FailedEvent.
Marshal(e) == EventValue(TRUE, e.node_id, e.timestamp, e.event_type, FALSE)

\* Fault: the history key leaves the timestamp out.
HistoryKeyOfNode(e) == <<e.node_id, <<>>>>

\* Sprintf("failed_events_history/%s/%d", event.NodeID, event.Timestamp).
HistoryKey(e) == <<e.node_id, Sprintf(e.timestamp)>>

\* The values nodes write: two events of node n1 with the same timestamp, one
\* with another timestamp and a member the struct lacks, "{}", and text that
\* does not parse.
EventValues ==
    {EventValue(TRUE, "n1", 1, "pppoe_dial", FALSE),
     EventValue(TRUE, "n1", 1, "pppoe_hangup", FALSE),
     EventValue(TRUE, "n1", 2, "pppoe_dial", TRUE),
     EventValue(TRUE, "", 0, "", FALSE),
     NoValue}

\* The goroutine of StartFailedEventsWatcher: at counts the events it is done
\* with, event and lease are the locals of processFailedEvent.  dropped is a
\* ghost: the events whose Grant or Put failed.
WatcherStart ==
    [pc |-> "recv", at |-> 0, event |-> FailedEvent("", 0, ""), lease |-> 0, dropped |-> {}]

WatchFrame == UNCHANGED <<now, registryVars, authVars, configVars, down, userVars, utilVars>>

\* A node (or an operator) puts or deletes a key under failed_events/.
PutFailedEvent(v) ==
    /\ Len(feed) < MaxEvents
    /\ feed' = Append(feed, [type |-> "PUT", value |-> v])
    /\ UNCHANGED <<fhist, watcher>> /\ WatchFrame

DeleteFailedEvent ==
    /\ Len(feed) < MaxEvents
    /\ feed' = Append(feed, [type |-> "DELETE", value |-> NoValue])
    /\ UNCHANGED <<fhist, watcher>> /\ WatchFrame

\* WatchFailedEvents, `continue` after a value that does not parse.
SkipUnparseable(w) == [w EXCEPT !.at = @ + 1]

\* WatchFailedEvents: the next event of the channel; its value is parsed and
\* the handler entered (up to its Grant), whatever the type of the event.
WatchReceive ==
    /\ watcher.pc = "recv" /\ watcher.at < Len(feed)
    /\ LET parsed == Unmarshal(feed[watcher.at + 1].value) IN
       watcher' = IF ~parsed.ok THEN SkipUnparseable(watcher)
                  ELSE [watcher EXCEPT !.pc = "grant", !.event = parsed.event]
    /\ UNCHANGED <<feed, fhist>> /\ WatchFrame

\* WatchFailedEvents: the channel delivers an error, the function returns it
\* (nothing starts the watch again).
WatchError ==
    /\ watcher.pc = "recv"
    /\ watcher' = [watcher EXCEPT !.pc = "returned"]
    /\ UNCHANGED <<feed, fhist>> /\ WatchFrame

\* The handler is done with the event it was called for.
HandlerReturn(w, stored) ==
    [w EXCEPT !.pc = "recv", !.at = @ + 1, !.lease = 0, !.event = FailedEvent("", 0, ""),
              !.dropped = IF stored THEN @ ELSE @ \cup {w.at + 1}]

\* processFailedEvent: Grant of the lease (an error or the 3 s deadline ends
\* the handler).
ProcessGrant(ok) ==
    /\ watcher.pc = "grant"
    /\ watcher' = IF ok THEN [watcher EXCEPT !.pc = "put", !.lease = HistoryTTL]
                  ELSE HandlerReturn(watcher, FALSE)
    /\ UNCHANGED <<feed, fhist>> /\ WatchFrame

\* processFailedEvent: Put of the history key under the lease.
ProcessPut(ok) ==
    /\ watcher.pc = "put"
    /\ fhist' = IF ok THEN PutKey(fhist, HistoryKey(watcher.event),
                                  [value |-> Marshal(watcher.event), ttl |-> watcher.lease])
                ELSE fhist
    /\ watcher' = HandlerReturn(watcher, ok)
    /\ UNCHANGED feed /\ WatchFrame

\* --- the readers of the history
\* The byte of each character a history key is made of.
ByteOf ==
    ("-" :> 45) @@ ("/" :> 47) @@ ("0" :> 48) @@ ("1" :> 49) @@ ("2" :> 50) @@ ("3" :> 51)
    @@ ("4" :> 52) @@ ("5" :> 53) @@ ("6" :> 54) @@ ("7" :> 55) @@ ("8" :> 56) @@ ("9" :> 57)
    @@ ("n" :> 110)

\* The characters of a node id.
NodeText(n) ==
    CASE n = "n1" -> <<"n", "1">>
      [] n = "n2" -> <<"n", "2">>
      [] OTHER   -> <<>>

\* The key of a history entry after "failed_events_history/".
KeyText(k) == NodeText(k[1]) \o <<"/">> \o k[2]

\* etcd orders keys as byte strings: s comes before t.
RECURSIVE KeyLess(_, _)
KeyLess(s, t) ==
    IF t = <<>> THEN FALSE
    ELSE IF s = <<>> THEN TRUE
    ELSE IF s[1] # t[1] THEN ByteOf[s[1]] < ByteOf[t[1]]
    ELSE KeyLess(Tail(s), Tail(t))

HasPrefix(s, p) == Len(s) >= Len(p) /\ SubSeq(s, 1, Len(p)) = p

\* clientv3 Get with WithPrefix and WithSort(SortByKey, SortDescend): the keys
\* of K, the greatest first.
RECURSIVE SortDescend(_)
SortDescend(K) ==
    IF K = {} THEN <<>>
    ELSE LET top == CHOOSE k \in K : \A j \in K \ {k} : KeyLess(KeyText(j), KeyText(k))
         IN  <<top>> \o SortDescend(K \ {top})

\* Fault: the type assertion on event_type never succeeds.
StringTypeNever(event) == [ok |-> FALSE, s |-> ""]

\* event["event_type"].(string)
StringType(event) ==
    IF "event_type" \in DOMAIN event THEN [ok |-> TRUE, s |-> event.event_type]
    ELSE [ok |-> FALSE, s |-> ""]

\* The loop of both handlers over resp.Kvs: a value that does not parse into a
\* map is skipped; with a filter, an event whose event_type is a string other
\* than the filter is skipped.
RECURSIVE CollectEvents(_, _)
CollectEvents(keys, eventTypeFilter) ==
    IF keys = <<>> THEN <<>>
    ELSE LET event == fhist[keys[1]].value
             rest  == CollectEvents(Tail(keys), eventTypeFilter)
             type  == StringType(event)
         IN  IF ~event.wellformed THEN rest
             ELSE IF eventTypeFilter # "" /\ type.ok /\ type.s # eventTypeFilter THEN rest
             ELSE <<event>> \o rest

\* GET /api/failed-events/{nodeId}, lines 1526-1553.
GetFailedEvents(nodeId, ok) ==
    IF nodeId = "" THEN [status |-> 400, error |-> "Node ID is required", events |-> <<>>]
    ELSE IF ~ok THEN [status |-> 500, error |-> "Failed to get failed events", events |-> <<>>]
    ELSE LET prefix == NodeText(nodeId) \o <<"/">>
             keys   == {k \in DOMAIN fhist : HasPrefix(KeyText(k), prefix)}
         IN  [status |-> 200, error |-> "", events |-> CollectEvents(SortDescend(keys), "")]

\* GET /api/failed-events?event_type=..., lines 1566-1598.
GetAllFailedEvents(eventTypeFilter, ok) ==
    IF ~ok THEN [status |-> 500, error |-> "Failed to get failed events", events |-> <<>>]
    ELSE [status |-> 200, error |-> "",
          events |-> CollectEvents(SortDescend(DOMAIN fhist), eventTypeFilter)]

\* The events the nodes of HistorySpec report: three with an event_type, one
\* that leaves the member out (the FailedEvent stored for it carries the empty
\* string), and text that does not parse.
ReportedEvents ==
    {EventValue(TRUE, "n1", 9, "pppoe_dial", FALSE),
     EventValue(TRUE, "n1", 10, "pppoe_hangup", FALSE),
     EventValue(TRUE, "n2", 9, "pppoe_dial", FALSE),
     EventValue(TRUE, "n2", 10, "", FALSE),
     NoValue}

\* ----------------------------------------------------------------- shutdown
\* The GrpcServer as NewGrpcServer leaves it (its context live, s.grpcServer
\* nil, Stop not called) and as it is once Start serves.
Constructed == [ctx |-> FALSE, grpcServer |-> "nil", pc |-> "idle"]
Listening == [Constructed EXCEPT !.grpcServer = "serving"]

\* GrpcServer.Start: s.grpcServer = grpc.NewServer(), then Serve.
Start ==
    /\ down.grpcServer = "nil"
    /\ down' = [down EXCEPT !.grpcServer = "serving"]
    /\ UNCHANGED <<now, registryVars, authVars, configVars, eventVars, userVars, utilVars>>

\* GrpcServer.Stop, lines 298-300: cancelCtx() cancels s.ctx (NewGrpcServer
\* has set s.cancelCtx).  It does not reach the supervisor's monitors, whose
\* contexts StartMonitoring derives from context.Background(), nor the
\* watcher, whose context is its own.
Stop ==
    /\ down.pc = "idle"
    /\ down' = [down EXCEPT !.ctx = TRUE, !.pc = "cancelled"]
    /\ UNCHANGED <<now, registryVars, authVars, configVars, eventVars, userVars, utilVars>>

\* GrpcServer.Stop, lines 301-303: when Start has set s.grpcServer,
\* GracefulStop() closes the listener and waits for the RPCs in flight; a
\* server not yet created is left alone and Stop returns.
StopGraceful ==
    /\ down.pc = "cancelled"
    /\ down' = IF down.grpcServer = "nil"
               THEN [down EXCEPT !.pc = "done"]
               ELSE [down EXCEPT !.grpcServer = "stopped", !.pc = "wait"]
    /\ UNCHANGED <<now, registryVars, authVars, configVars, eventVars, userVars, utilVars>>

\* GracefulStop returns once every RPC in flight has been answered.
StopReturn ==
    /\ down.pc = "wait"
    /\ calls = EmptyBag
    /\ down' = [down EXCEPT !.pc = "done"]
    /\ UNCHANGED <<now, registryVars, authVars, configVars, eventVars, userVars, utilVars>>

\* getNicCounter on a GetFastrgSystemInfo response with a NIC entry whose
\* PerUserStats is empty: the seven NIC gauges of the entry are set, then
\* stat.PerUserStats[len(stat.PerUserStats)-1] is an index out of range, the
\* goroutine panics and, nothing recovering it, the runtime ends the
\* process: every goroutine (monitor loops, sweeper, gRPC and REST handlers,
\* the failed-event watcher with the event in its hands) and the gauge
\* registry go with it.  The store keeps its keys and the events it has
\* sent; the process starts again with empty memory, its servers serving and
\* its watcher on a new watch that delivers what is put from then on.
ScrapePanic(m) ==
    /\ mons[m].loop = "got1"
    /\ mons[m].at > 0
    /\ LET last == PhaseSeries(1, mons[m].nodeUUID, mons[m].n)[mons[m].at]
       IN  last.family = "nic" /\ last.gauge = NicGauges[Len(NicGauges)]
    /\ mons' = [i \in MonIds |-> [mons[i] EXCEPT !.loop = "exited", !.connOpen = FALSE,
                                                !.n = 0, !.at = 0]]
    /\ monitors' = <<>>
    /\ mu' = Unlocked
    /\ series' = {}
    /\ calls' = EmptyBag
    /\ reply' = NoReply
    /\ sweep' = SweepIdle
    /\ reqs' = EmptyBag
    /\ resp' = NoResp
    /\ hsi' = EmptyBag
    /\ hresp' = NoHResp
    /\ regs' = EmptyBag
    /\ rresp' = NoRResp
    /\ watcher' = [WatcherStart EXCEPT !.at = Len(feed), !.dropped = watcher.dropped]
    /\ down' = Listening
    /\ UNCHANGED <<now, nodes, watch, blacklist, loggedOut, configs, counts, commands,
                   written, serial, feed, fhist, users, utilVars>>

\* monitorStaleNodes, case <-s.ctx.Done(): the goroutine returns.
SweepExit ==
    /\ sweep.pc = "idle" /\ down.ctx
    /\ sweep' = [SweepIdle EXCEPT !.pc = "exited"]
    /\ UNCHANGED <<now, nodes, monitors, mu, mons, series, calls>> /\ Quiet

\* ------------------------------------------------------------------- clock
Tick(d) ==
    /\ now + d <= MaxTime
    /\ now' = now + d
    /\ UNCHANGED <<nodes, monitors, mu, mons, series, calls, sweep>> /\ Quiet

\* Time goes on past MaxTime for as long as some record is still fresh, by
\* enough to make it stale (no request arrives that late, so only handlers
\* already running stamp then).
Wait ==
    /\ now + HeartbeatTimeout + 1 > MaxTime
    /\ \E u \in DOMAIN nodes : now - nodes[u].last_seen_time <= HeartbeatTimeout
    /\ now' = now + HeartbeatTimeout + 1
    /\ UNCHANGED <<nodes, monitors, mu, mons, series, calls, sweep>> /\ Quiet

\* GET /api/nodes: the prefix read of nodes/ the handler returns.
ListNodes == RangeRead(nodes)

\* ------------------------------------------------------------ specification
\* d is the GrpcServer: Constructed (NewGrpcServer has returned) or Listening.
InitFrom(ops, one, args, d) ==
    /\ now = 0
    /\ nodes = <<>>
    /\ monitors = <<>>
    /\ mu = Unlocked
    /\ mons = <<>>
    /\ series = {}
    /\ calls = EmptyBag
    /\ reply = NoReply
    /\ watch = ops
    /\ sweep = SweepIdle
    /\ blacklist = <<>>
    /\ reqs = EmptyBag
    /\ resp = NoResp
    /\ loggedOut = {}
    /\ configs = <<>>
    /\ counts = <<>>
    /\ commands = <<>>
    /\ hsi = EmptyBag
    /\ hresp = NoHResp
    /\ written = [last |-> [k \in VersionedKeys |-> 0], overlap |-> FALSE]
    /\ serial = one
    /\ feed = <<>>
    /\ fhist = <<>>
    /\ watcher = WatcherStart
    /\ down = d
    /\ users = <<>>
    /\ regs = EmptyBag
    /\ rresp = NoRResp
    /\ arg \in args
    /\ ret = NoRet

\* The controller with its gRPC server serving.
InitArg(ops, one, args) == InitFrom(ops, one, args, Listening)

InitWith(ops, one) == InitArg(ops, one, {<<>>})

InitWatching(ops) == InitWith(ops, FALSE)

Init == InitWatching({})

\* The requests of a fleet U of nodes (a request may also carry no uuid);
\* oks are the outcomes the store's calls may have.
RegisterNext(U, oks) ==
    \/ \E u \in U \cup {""}, ip \in IPs : RegisterBegin(u, ip)
    \/ \E r \in InFlight, ok \in oks : RegisterPut(r, ok)
    \/ \E r \in InFlight : RegisterStartMonitoring(r)
    \/ \E r \in InFlight : RegisterRestart(r)
    \/ \E r \in InFlight : RegisterRestarted(r)

UnregisterNext(U, oks) ==
    \/ \E u \in U \cup {""}, ok \in oks : UnregisterGet(u, ok)
    \/ \E r \in InFlight : UnregisterStop(r)
    \/ \E r \in InFlight : UnregisterStopping(r)
    \/ \E r \in InFlight, ok \in oks : UnregisterDelete(r, ok)

RestUnregisterNext(U, oks) ==
    \/ \E u \in U, ok \in oks : RestUnregisterGet(u, ok)
    \/ \E r \in InFlight, ok \in oks : RestUnregisterDelete(r, ok)

HeartbeatNext(U, oks) ==
    \/ \E u \in U \cup {""}, ok \in oks : HeartbeatGet(u, ok)
    \/ \E r \in InFlight : HeartbeatStamp(r)
    \/ \E r \in InFlight, ok \in oks : HeartbeatPut(r, ok)

\* The sweeper's steps but those of a StopMonitoring that found a monitor.
SweeperCycle(oks) ==
    \/ \E ok \in oks : SweepGet(ok)
    \/ SweepClock
    \/ SweepSkip
    \/ SweepStop
    \/ \E ok \in SweepDeleteOutcomes(oks) : SweepDelete(ok)
    \/ SweepEnd

SweeperNext(oks) == SweeperCycle(oks) \/ SweepStopping

ExitNext == \E m \in MonIds : MonitorExit(m)

ClockNext == \E d \in TickSteps : Tick(d)

Fleet == {"n1"}

\* The node registry: every handler, the sweeper, the clock; the monitors'
\* goroutines wait in their select until they are cancelled.
Next ==
    \/ RegisterNext(Fleet, BOOLEAN)
    \/ UnregisterNext(Fleet, BOOLEAN)
    \/ RestUnregisterNext(Fleet, BOOLEAN)
    \/ HeartbeatNext(Fleet, BOOLEAN)
    \/ SweeperNext(BOOLEAN)
    \/ ExitNext
    \/ ClockNext

Spec == Init /\ [][Next]_vars

\* No RegisterNode has been admitted so far.
NeverRegistered == Len(mons) = 0 /\ PendingRegisters = 0

\* The scrape loop of one monitor and the gauge registry, with the gRPC
\* handlers that start and stop it: the node registers once and is
\* unregistered by one UnregisterNode at a time (the store always answers,
\* the clock stands still); it answers GetFastrgSystemInfo, with one NIC
\* entry or two, while the registry is empty and fails that call afterwards.
ScrapeSpecNext ==
    \/ \E u \in Fleet, ip \in IPs : NeverRegistered /\ RegisterBegin(u, ip)
    \/ \E r \in InFlight : RegisterPut(r, TRUE)
    \/ \E r \in InFlight : RegisterStartMonitoring(r)
    \/ \E u \in Fleet : calls = EmptyBag /\ UnregisterGet(u, TRUE)
    \/ \E r \in InFlight : UnregisterStop(r)
    \/ \E r \in InFlight : UnregisterStopping(r)
    \/ \E r \in InFlight : UnregisterDelete(r, TRUE)
    \/ \E m \in MonIds : ScrapeTick(m)
    \/ \E m \in MonIds : ScrapeFail(m)
    \/ \E m \in MonIds : (mons[m].loop = RpcState(1) => series = {}) /\ ScrapeResponse(m)
    \/ \E m \in MonIds, n \in 1..MaxNics : ScrapeWrite(m, n)
    \/ ExitNext

ScrapeSpec == Init /\ [][ScrapeSpecNext]_vars

\* A node that registers and sends heartbeats until it falls silent, with the
\* store reachable: every store call of the handlers and of the sweeper answers.
ArriveNext ==
    /\ now <= MaxTime
    /\ \/ \E u \in Fleet, ip \in IPs : RegisterBegin(u, ip)
       \/ \E u \in Fleet : HeartbeatGet(u, TRUE)

HandleNext ==
    \/ \E r \in InFlight : RegisterPut(r, TRUE)
    \/ \E r \in InFlight : RegisterStartMonitoring(r)
    \/ \E r \in InFlight : RegisterRestart(r)
    \/ \E r \in InFlight : RegisterRestarted(r)
    \/ \E r \in InFlight : HeartbeatStamp(r)
    \/ \E r \in InFlight : HeartbeatPut(r, TRUE)

TimeNext == (\E d \in TickSteps : Tick(d)) \/ Wait

FairNext ==
    \/ ArriveNext
    \/ HandleNext
    \/ SweeperNext({TRUE})
    \/ TimeNext

\* Scheduling: the sweeper's ticker keeps firing and its cycle runs on
\* (monitorStaleNodes), a handler in flight returns, time passes.  (The
\* monitors' goroutines are left out: no step of theirs touches the store.)
FairSpec ==
    /\ Init /\ [][FairNext]_vars
    /\ WF_vars(SweeperNext({TRUE}))
    /\ WF_vars(HandleNext)
    /\ WF_vars(TimeNext)

\* The protected REST endpoints: the auth middleware, Logout and the store's
\* leases.  The store revokes run-out leases and time passes.
AuthArriveNext == \E kind \in {"api", "logout"}, h \in Headers : MwBegin(kind, h)

AuthHandleNext ==
    \/ \E r \in Serving, ok \in BOOLEAN : MwGet(r, ok)
    \/ \E r \in Serving : LogoutValidate(r)
    \/ \E r \in Serving : LogoutTtl(r)
    \/ \E r \in Serving, ok \in BOOLEAN : LogoutGrant(r, ok)
    \/ \E r \in Serving, ok \in BOOLEAN : LogoutPut(r, ok)

LeaseNext == \E h \in Tokens : LeaseExpire(h)

AuthClockNext == \E t \in AuthInstants : AuthTick(t)

AuthNext == AuthArriveNext \/ AuthHandleNext \/ LeaseNext \/ AuthClockNext

AuthSpec ==
    /\ Init /\ [][AuthNext]_vars
    /\ WF_vars(LeaseNext)
    /\ WF_vars(AuthClockNext)

\* The registry with the replies of Heartbeat recorded.  (The monitors'
\* goroutines are left out: no step of theirs touches the store or the map.)
HeartbeatSpecNext ==
    \/ RegisterNext(Fleet, BOOLEAN)
    \/ UnregisterNext(Fleet, BOOLEAN)
    \/ RestUnregisterNext(Fleet, BOOLEAN)
    \/ HeartbeatNext(Fleet, BOOLEAN)
    \/ SweeperNext(BOOLEAN)
    \/ ClockNext

HeartbeatSpec == InitWatching({"Heartbeat"}) /\ [][HeartbeatSpecNext]_vars


\* The configuration plane: HSI records, the subscriber count and the PPPoE
\* commands of one node.  A store call may fail, and the token a handler
\* re-validates (getUserFromToken) may have expired since the middleware.
ConfigInputs(U, V) == {HSIConfig(u, v) : u \in U, v \in V}

\* The requests that carry user ids U and VLAN ids V (a field may be
\* missing: <<>>, ""); oks are the outcomes a store call may have.
CreateNext(U, V, oks) ==
    \/ \E cfg \in ConfigInputs(U, V), ok \in oks : CreateBegin(cfg, ok)
    \/ \E r \in HsiServing, ok \in oks, tokenOk \in oks : CreateVlan(r, ok, tokenOk)
    \/ \E r \in HsiServing, ok \in oks : CreateVersion(r, ok)
    \/ \E r \in HsiServing, ok \in oks : CreatePut(r, ok)

UpdateNext(U, V, oks) ==
    \/ \E u \in U \ {<<>>}, cfg \in ConfigInputs(U, V), ok \in oks : UpdateBegin(u, cfg, ok)
    \/ \E r \in HsiServing, ok \in oks, tokenOk \in oks : UpdateVlan(r, ok, tokenOk)
    \/ \E r \in HsiServing, ok \in oks : UpdateVersion(r, ok)
    \/ \E r \in HsiServing, ok \in oks : UpdateStatus(r, ok)
    \/ \E r \in HsiServing, ok \in oks : UpdatePut(r, ok)

DeleteNext(U, oks) ==
    \/ \E u \in U \ {<<>>}, ok \in oks : DeleteBegin(u, ok)
    \/ \E r \in HsiServing, ok \in oks : DeleteGet(r, ok)
    \/ \E r \in HsiServing, ok \in oks : DeleteDelete(r, ok)

PppoeNext(U, oks) ==
    \/ \E a \in Actions, u \in U, ok \in oks : PppoeBegin(a, u, ok)
    \/ \E r \in HsiServing, ok \in oks : PppoeGet(r, ok)
    \/ \E r \in HsiServing, ok \in oks : PppoePut(r, ok)

GetNext(U, oks) ==
    \/ \E u \in U, ok \in oks : GetHSIConfigBegin(u, ok)
    \/ \E r \in HsiServing, ok \in oks : GetHSIConfigGet(r, ok)

CountNext(oks) ==
    \/ \E n \in -1..MaxCount, ok \in oks, tokenOk \in oks : CountBegin(n, tokenOk, ok)
    \/ \E r \in HsiServing, ok \in oks : CountPut(r, ok)

\* HSI records of two users, written by requests that do not overlap (no
\* subscriber count is set).
VlanUsers == {<<"1">>, <<"2">>}
AnyVlan == VlanIds \cup {""}

VlanNext ==
    \/ CreateNext(VlanUsers \cup {<<>>}, AnyVlan, BOOLEAN)
    \/ UpdateNext(VlanUsers \cup {<<>>}, AnyVlan, BOOLEAN)
    \/ DeleteNext(VlanUsers, BOOLEAN)

VlanSpec == InitWith({"Create", "Update"}, TRUE) /\ [][VlanNext]_vars

\* The HSI record of user 2 and the subscriber count, written by requests
\* that do not overlap.
ConfigUsers == {<<"2">>}

ConfigNext ==
    \/ CreateNext(ConfigUsers \cup {<<>>}, AnyVlan, BOOLEAN)
    \/ UpdateNext(ConfigUsers \cup {<<>>}, AnyVlan, BOOLEAN)
    \/ DeleteNext(ConfigUsers, BOOLEAN)
    \/ CountNext(BOOLEAN)
    \/ GetNext(ConfigUsers, BOOLEAN)

ConfigSpec ==
    InitWith({"Create", "Update", "CountPut", "GetHSIConfig"}, TRUE) /\ [][ConfigNext]_vars

\* Dial and hangup commands for user 2, whose record comes and goes and whose
\* node's subscriber count changes; requests do not overlap.
CommandNext ==
    \/ CreateNext(ConfigUsers, VlanIds, {TRUE})
    \/ DeleteNext(ConfigUsers, {TRUE})
    \/ CountNext({TRUE})
    \/ PppoeNext(ConfigUsers \cup {<<>>}, BOOLEAN)

CommandSpec == InitWith(Actions, TRUE) /\ [][CommandNext]_vars

\* The failed-event pipeline: nodes write events, the watcher goroutine is
\* scheduled, and the store may fail any call.
EventNext(V) ==
    \/ \E v \in V : PutFailedEvent(v)
    \/ DeleteFailedEvent

WatcherNext(oks) ==
    \/ WatchReceive
    \/ \E ok \in oks : ProcessGrant(ok)
    \/ \E ok \in oks : ProcessPut(ok)

WatchNext == EventNext(EventValues) \/ WatcherNext(BOOLEAN) \/ WatchError

WatchSpec ==
    /\ Init /\ [][WatchNext]_vars
    /\ WF_vars(WatcherNext(BOOLEAN))

\* Shutdown: a node registers and is scraped (it answers no scrape), the
\* sweeper and the failed-event watcher run, and GrpcServer.Stop is called at
\* some moment; the store answers every call.  Every goroutine is scheduled
\* again and again, and a select whose context is done does not take its
\* ticker for ever.
AcceptNext ==
    /\ down.grpcServer = "serving"
    /\ \E u \in Fleet, ip \in IPs : RegisterBegin(u, ip)

\* main has called NewGrpcServer; Start follows on its goroutine.
ShutdownInit == InitFrom({}, FALSE, {<<>>}, Constructed)

StopNext == Stop \/ StopGraceful \/ StopReturn

ServeNext ==
    \/ \E r \in InFlight : RegisterPut(r, TRUE)
    \/ \E r \in InFlight : RegisterStartMonitoring(r)
    \/ \E r \in InFlight : RegisterRestart(r)
    \/ \E r \in InFlight : RegisterRestarted(r)

LoopNext ==
    \/ \E m \in MonIds : ScrapeTick(m)
    \/ \E m \in MonIds : ScrapeFail(m)

\* The sweeper's cycles while no node is stale.
SweepCycleNext ==
    \/ SweepGet(TRUE)
    \/ SweepClock
    \/ SweepSkip
    \/ SweepEnd

ShutdownNext ==
    \/ AcceptNext
    \/ ServeNext
    \/ LoopNext
    \/ ExitNext
    \/ SweepCycleNext
    \/ SweepExit
    \/ PutFailedEvent(EventValue(TRUE, "n1", 1, "pppoe_dial", FALSE))
    \/ WatcherNext({TRUE})
    \/ Start
    \/ StopNext

ShutdownSpec ==
    /\ ShutdownInit /\ [][ShutdownNext]_vars
    /\ WF_vars(Start)
    /\ WF_vars(StopNext)
    /\ WF_vars(ServeNext)
    /\ WF_vars(LoopNext)
    /\ WF_vars(ExitNext)
    /\ WF_vars(SweepCycleNext)
    /\ SF_vars(SweepExit)
    /\ WF_vars(WatcherNext({TRUE}))

\* Two nodes, each with its monitor: the scrape loops of both, every answer a
\* node may give (an error, a response, a response with a NIC entry that has
\* no per-user statistics), and the handler that starts the monitors.
TwoNodes == {"n1", "n2"}

FleetLoopNext ==
    \/ \E m \in MonIds : ScrapeTick(m)
    \/ \E m \in MonIds : ScrapeFail(m)
    \/ \E m \in MonIds : ScrapeResponse(m)
    \/ \E m \in MonIds : ScrapeWrite(m, 1)
    \/ \E m \in MonIds : ScrapePanic(m)

FleetNext ==
    \/ \E u \in TwoNodes, ip \in IPs : RegisterBegin(u, ip)
    \/ \E r \in InFlight : RegisterPut(r, TRUE)
    \/ \E r \in InFlight : RegisterStartMonitoring(r)
    \/ \E r \in InFlight : RegisterRestart(r)
    \/ \E r \in InFlight : RegisterRestarted(r)
    \/ FleetLoopNext
    \/ ExitNext

FleetSpec == Init /\ [][FleetNext]_vars

\* The checks of Create and Update in their order: HSI records of two users
\* and the subscriber count, bodies with a field missing among the requests,
\* one request after the other.
PartialInputs ==
    {[HSIConfig(<<>>, "") EXCEPT !.account_name = ""],
     [HSIConfig(<<"2">>, "") EXCEPT !.account_name = ""],
     [HSIConfig(<<"2">>, "100") EXCEPT !.account_name = ""],
     [HSIConfig(<<"2">>, "100") EXCEPT !.dhcp_gateway = ""],
     [HSIConfig(<<"2">>, "100") EXCEPT !.password = "", !.dhcp_subnet = ""]}

OrderNext ==
    \/ \E cfg \in PartialInputs, ok \in BOOLEAN : CreateBegin(cfg, ok)
    \/ \E u \in VlanUsers, cfg \in PartialInputs, ok \in BOOLEAN : UpdateBegin(u, cfg, ok)
    \/ CreateNext(VlanUsers \cup {<<>>}, AnyVlan, BOOLEAN)
    \/ UpdateNext(VlanUsers \cup {<<>>}, AnyVlan, BOOLEAN)
    \/ CountNext({TRUE})

OrderSpec == InitWith({"Create", "Update"}, TRUE) /\ [][OrderNext]_vars

\* The sweeper over records of two nodes written by other clients of the
\* store, readable or not, the store failing at will.  (No node registers:
\* the supervisor holds no monitor and every StopMonitoring returns at once.)
SweepNext ==
    \/ \E u \in TwoNodes : \E v \in NodeValues(u) : PutNode(u, v)
    \/ SweeperCycle(BOOLEAN)
    \/ ClockNext

SweepSpec == Init /\ [][SweepNext]_vars

\* The history and its readers: nodes report events, the watcher stores them
\* (the store answers every call); failed_events_history/ has no other writer.
HistoryNext ==
    \/ EventNext(ReportedEvents)
    \/ WatcherNext({TRUE})

HistorySpec == Init /\ [][HistoryNext]_vars

\* The utility functions, each called once on an argument drawn by Init.
UtilNext == CallParseIPRange \/ CallIPv4toInt

UtilSpec == InitArg({}, FALSE, UtilInputs) /\ [][UtilNext]_vars

\* The registrations of two usernames, overlapping each other and the other
\* writers of users/ (AddUser and DeleteUser for one of the names or with no
\* name, the create_user tool), the store failing at will.
AccountNext ==
    \/ \E name \in Usernames \cup {""}, pw \in Passwords \cup {""}, salt \in Salts, ok \in BOOLEAN :
          RestRegisterBegin(name, pw, salt, ok)
    \/ \E r \in BagToSet(regs), ok \in BOOLEAN : RestRegisterPut(r, ok)
    \/ \E name \in {"alice", ""}, ok \in BOOLEAN : AddUser(name, "pw1", "s1", ok)
    \/ \E name \in {"alice", ""}, ok \in BOOLEAN : DeleteUser(name, ok)
    \/ \E ok \in BOOLEAN : create_user("s1", ok)

AccountSpec == Init /\ [][AccountNext]_vars

\* HSI records of three users, one of them with an id that is no integer,
\* under a subscriber count that is set, changed, or written unreadable by
\* another client, and the lists of their ids.  The writes come one after
\* the other, and so do the lists; a list overlaps the writes; the store
\* answers the writers, and may fail a read of the list.
ListInputs == {HSIConfig(<<"1">>, "100"), HSIConfig(<<"2">>, "200"), HSIConfig(<<"x">>, "300")}

WritersIdle == \A r \in HsiServing : r.op = "GetHSIUserIds"
ListIdle    == \A r \in HsiServing : r.op # "GetHSIUserIds"

ListNext ==
    \/ WritersIdle /\ \E cfg \in ListInputs : CreateBegin(cfg, TRUE)
    \/ \E r \in HsiServing : CreateVlan(r, TRUE, TRUE)
    \/ \E r \in HsiServing : CreateVersion(r, TRUE)
    \/ \E r \in HsiServing : CreatePut(r, TRUE)
    \/ WritersIdle /\ \E u \in UserIds : DeleteBegin(u, TRUE)
    \/ \E r \in HsiServing : DeleteGet(r, TRUE)
    \/ \E r \in HsiServing : DeleteDelete(r, TRUE)
    \/ WritersIdle /\ \E n \in 1..MaxCount : CountBegin(n, TRUE, TRUE)
    \/ \E r \in HsiServing : CountPut(r, TRUE)
    \/ \E text \in CountTexts : PutCount(text)
    \/ ListIdle /\ \E ok \in BOOLEAN : GetHSIUserIdsGet(ok)
    \/ \E r \in HsiServing, ok \in BOOLEAN : GetHSIUserIdsCount(r, ok)

ListSpec == InitWith({"GetHSIUserIds"}, FALSE) /\ [][ListNext]_vars

\* Deletes of the records of two users, one of them holding commands, under
\* a subscriber count that changes; one request after the other.
RemoveNext ==
    \/ CreateNext(VlanUsers, VlanIds, {TRUE})
    \/ DeleteNext(VlanUsers, BOOLEAN)
    \/ CountNext({TRUE})
    \/ PppoeNext(ConfigUsers, {TRUE})

RemoveSpec == InitWith({"Delete"}, TRUE) /\ [][RemoveNext]_vars

\* The sweeper against a node that registers and sends heartbeats while the
\* clock advances; the store answers every call.
RefreshNext ==
    \/ RegisterNext(Fleet, {TRUE})
    \/ HeartbeatNext(Fleet, {TRUE})
    \/ SweeperNext({TRUE})
    \/ ClockNext

RefreshSpec == Init /\ [][RefreshNext]_vars

\* The supervisor under every caller of StartMonitoring and StopMonitoring:
\* registrations (overlapping, some with an address grpc.NewClient rejects),
\* unregistrations and the sweeper, with the store answering every call.
MonitorNext ==
    \/ \E u \in Fleet, ip \in Targets : RegisterBegin(u, ip)
    \/ \E r \in InFlight : RegisterPut(r, TRUE)
    \/ \E r \in InFlight : RegisterStartMonitoring(r)
    \/ \E r \in InFlight : RegisterRestart(r)
    \/ \E r \in InFlight : RegisterRestarted(r)
    \/ UnregisterNext(Fleet, {TRUE})
    \/ SweeperNext({TRUE})
    \/ ExitNext
    \/ ClockNext

MonitorSpec == Init /\ [][MonitorNext]_vars

\* A node that registers from two addresses or from one grpc.NewClient
\* rejects, its registrations overlapping, and sends heartbeats while the
\* clock advances; the store answers every call.
TwoIPs == {"10.0.0.5", "10.0.0.6"}

AddressNext ==
    \/ \E u \in Fleet, ip \in TwoIPs \cup {BadIP} : RegisterBegin(u, ip)
    \/ \E r \in InFlight : RegisterPut(r, TRUE)
    \/ \E r \in InFlight : RegisterStartMonitoring(r)
    \/ \E r \in InFlight : RegisterRestart(r)
    \/ \E r \in InFlight : RegisterRestarted(r)
    \/ HeartbeatNext(Fleet, {TRUE})
    \/ ClockNext

AddressSpec == Init /\ [][AddressNext]_vars

\* Creates for two users that ask for one VLAN, overlapping: up to MaxRequests
\* requests are in flight at once, and a store call may fail.
ScanNext == CreateNext(VlanUsers, {"100"}, BOOLEAN)

ScanSpec == InitWith({"Create"}, FALSE) /\ [][ScanNext]_vars

\* The writers and readers of one HSI key and of the subscriber count,
\* overlapping: up to MaxRequests requests are in flight at once (the store
\* answers every call).
RaceNext ==
    \/ CreateNext(ConfigUsers, {"100"}, {TRUE})
    \/ UpdateNext(ConfigUsers, {"100"}, {TRUE})
    \/ CountNext({TRUE})
    \/ GetNext(ConfigUsers, {TRUE})

RaceSpec == InitWith({"GetHSIConfig"}, FALSE) /\ [][RaceNext]_vars

\* ------------------------------------------------------------------ properties
\* Monitor m of node u has been stopped: cancelled, its connection closed, and
\* no longer the entry of the supervisor's map.
Stopped(u, m) ==
    m # 0 => /\ MonitorOf(u) # m
             /\ mons[m].cancelled
             /\ ~mons[m].connOpen

\* C1: in gRPC UnregisterNode and in the stale sweeper, whenever the Delete of
\* nodes/{uuid} is about to be issued, StopMonitoring(uuid) has completed: the
\* monitor the supervisor held when that unregister began is cancelled, closed
\* and out of the map, so neither path removes the record while it is held.
C1_StopBeforeDelete ==
    /\ \A r \in InFlight :
         (r.op = "GrpcUnregister" /\ r.pc = "delete") => Stopped(r.uuid, r.mon0)
    /\ sweep.pc = "delete" => Stopped(SweepUuid(sweep.kvs[sweep.i]), sweep.mon0)

\* Both paths stand before their Delete, each having stopped a monitor.
C1_Witness ==
    /\ \E r \in InFlight :
         r.op = "GrpcUnregister" /\ r.pc = "delete" /\ r.mon0 # 0 /\ r.uuid \in DOMAIN nodes
    /\ sweep.pc = "delete" /\ sweep.mon0 # 0
    /\ sweep.kvs[sweep.i].key \in DOMAIN nodes

\* gRPC UnregisterNode run alone to its end, the store answering every call.
GrpcUnregisterRun(kv, S, u) ==
    IF u \notin DOMAIN kv
    THEN [nodes |-> kv, sup |-> S, res |-> "node not registered"]
    ELSE [nodes |-> DelKey(kv, u), sup |-> StopMonitoringFrom(S, u, 0), res |-> "ok"]

\* REST DELETE /api/nodes/{uuid} run alone to its end, the store answering every call.
RestUnregisterRun(kv, S, u) ==
    IF u \notin DOMAIN kv
    THEN [nodes |-> kv, sup |-> S, res |-> "Node not found"]
    ELSE [nodes |-> DelKey(kv, u), sup |-> S, res |-> "Node unregistered successfully"]

\* C2: from every reachable state, REST DELETE /api/nodes/{uuid} and gRPC
\* UnregisterNode(uuid) end in the same state: when the record exists it is
\* absent afterwards and the supervisor holds no monitor for uuid; when it is
\* missing both fail and change nothing.
C2_UnregisterPathsEquivalent ==
    \A u \in Fleet :
        LET g == GrpcUnregisterRun(nodes, Sup, u)
            h == RestUnregisterRun(nodes, Sup, u)
        IN  /\ h.nodes = g.nodes
            /\ h.sup = g.sup
            /\ u \in DOMAIN nodes => (u \notin DOMAIN h.nodes /\ u \notin DOMAIN h.sup.monitors)
            /\ u \notin DOMAIN nodes =>
                 (h.nodes = nodes /\ h.sup = Sup /\ g.nodes = nodes /\ g.sup = Sup)

\* No RegisterNode(u) handler is in flight.
NoRegisterInFlight(u) == \A r \in InFlight : ~(r.op = "Register" /\ r.uuid = u)

\* C3: once uuid has been unregistered and not registered again (its record is
\* gone, no RegisterNode for it is running and the goroutines of its monitors
\* have returned), the registry holds no gauge series of any family whose
\* node_uuid label is uuid.
C3_NoSeriesAfterUnregister ==
    \A u \in Fleet :
        (/\ u \notin DOMAIN nodes
         /\ NoRegisterInFlight(u)
         /\ \A m \in MonIds : mons[m].nodeUUID = u => mons[m].loop = "exited")
            => \A s \in series : s.node_uuid # u

\* C4: at the end of a sweep cycle, for every key the cycle deleted with no
\* RegisterNode step for that uuid since the delete, the supervisor's map holds
\* no monitor for the uuid.
C4_NoMonitorAfterSweep ==
    (sweep.pc = "loop" /\ sweep.i > Len(sweep.kvs))
        => \A u \in sweep.deleted \ sweep.regd : MonitorOf(u) = 0

\* C6: every write to nodes/{uuid} stores a last_seen_time greater than or
\* equal to the one it overwrites.
C6_LastSeenMonotonic ==
    [][\A u \in (DOMAIN nodes) \cap (DOMAIN nodes') :
          nodes'[u].last_seen_time >= nodes[u].last_seen_time]_vars

\* C7: a Heartbeat(uuid) whose Get finds no nodes/{uuid} record answers
\* "node not registered" and changes neither the store nor the supervisor, and
\* leaves no handler running that could.
C7_HeartbeatUnknownNode ==
    [][\A u \in Fleet :
          (u \notin DOMAIN nodes /\ HeartbeatGet(u, TRUE))
              => /\ reply' = [op |-> "Heartbeat", uuid |-> u, res |-> "node not registered"]
                 /\ UNCHANGED <<nodes, monitors, mu, mons, series, calls>>]_vars

\* A Heartbeat for a node that was registered and unregistered has just been refused.
C7_Witness ==
    /\ reply = [op |-> "Heartbeat", uuid |-> "n1", res |-> "node not registered"]
    /\ "n1" \notin DOMAIN nodes
    /\ Len(mons) > 0

\* A request of node u arrives: a RegisterNode, or a Heartbeat that finds its record.
NewContact(u) ==
    \/ \E ip \in IPs : RegisterBegin(u, ip)
    \/ HeartbeatGet(u, TRUE)

\* C5: if from some point on node uuid sends no further heartbeat and is not
\* registered again, then (the store being reachable) the sweeper deletes
\* nodes/{uuid}, and from then on ListNodes omits the node.
C5_StaleNodeRemoved ==
    \A u \in Fleet :
        <>[][~NewContact(u)]_vars
            => <>[](\A j \in DOMAIN ListNodes : ListNodes[j].key # u)

\* The sweeper has deleted the record of a node whose monitor it stopped.
C5_Witness ==
    /\ "n1" \in sweep.deleted
    /\ "n1" \notin DOMAIN nodes
    /\ Len(mons) > 0
    /\ ListNodes = <<>>

\* C8: after a Logout for token T has answered 200, every later request to a
\* protected endpoint that presents T is rejected: the middleware never calls
\* its handler.
C8_RevokedTokenRejected == resp.late => ~resp.next

\* C9: the middleware calls the handler only for a request whose header is
\* present, whose token validateToken accepted, and whose read of
\* token_blacklist/{token} succeeded and found no entry; a failed read is
\* answered 500 and the handler is not called.
C9_FailClosed ==
    [][/\ resp'.next => /\ resp'.header.present
                        /\ validateToken(resp'.header, resp'.validAt)
                        /\ resp'.read = "miss"
                        /\ resp'.header \notin DOMAIN blacklist
       /\ resp'.read = "error" => (resp'.status = 500 /\ ~resp'.next)]_vars

\* A request with a good token has been refused because the blacklist read failed.
C9_Witness ==
    /\ resp.read = "error"
    /\ resp.status = 500
    /\ resp.header \in Tokens
    /\ validateToken(resp.header, now)

\* C10: every entry of token_blacklist/ is under a lease of exp - now seconds
\* (now as Logout read it) granted within Logout's context; once a Logout for T
\* has answered 200 the entry is present at every moment before T expires; and
\* the store removes every entry after its token's expiry.
C10_BlacklistLease ==
    /\ [](\A h \in DOMAIN blacklist :
             /\ blacklist[h].ttl = h.exp - blacklist[h].at
             /\ blacklist[h].at <= blacklist[h].granted
             /\ blacklist[h].granted <= blacklist[h].at + LogoutTimeout)
    /\ [](\A h \in loggedOut : now < h.exp => h \in DOMAIN blacklist)
    /\ \A h \in Tokens : (h \in DOMAIN blacklist) ~> (h \notin DOMAIN blacklist /\ now >= h.exp)

\* The entry of a token logged out at its issue is there in the last second of
\* the token's life.
C10_Witness ==
    \E h \in loggedOut :
        /\ h \in DOMAIN blacklist
        /\ blacklist[h].ttl = TokenLifetime
        /\ now = h.exp - 1

\* C11: in every state reached by non-overlapping Create / Update / Delete
\* requests, no two records under configs/{node}/hsi/ with different user ids
\* hold the same vlan_id, and a 409 names a user that holds the VLAN.
C11_UniqueVlan ==
    /\ ~written.overlap =>
          \A u1 \in DOMAIN configs, u2 \in DOMAIN configs :
              u1 # u2 => configs[u1].config.vlan_id # configs[u2].config.vlan_id
    /\ (~written.overlap /\ hresp.status = 409) =>
          /\ hresp.holder \in DOMAIN configs
          /\ hresp.holder # hresp.user
          /\ configs[hresp.holder].config.vlan_id = hresp.cfg.vlan_id

\* Two users hold records with different VLANs and a write asking for the
\* other user's VLAN has just been answered 409.
C11_Witness ==
    /\ ~written.overlap
    /\ hresp.status = 409
    /\ DOMAIN configs = VlanUsers
    /\ hresp.holder \in DOMAIN configs

\* C12: whenever a subscriber count is set for the node, every record under
\* configs/{node}/hsi/ whose user id is an integer has user id <= the count.
C12_UserIdWithinCount ==
    \A u \in DOMAIN configs :
        (/\ ConfigNode \in DOMAIN counts
         /\ Atoi(counts[ConfigNode].subscriber_count).ok
         /\ Atoi(u).ok)
            => Atoi(u).n <= Atoi(counts[ConfigNode].subscriber_count).n

\* What is stored under a versioned key.
StoredKvs(k) == IF k = CountKey THEN CountKvs ELSE ConfigKvs(k)

\* C13: for each HSI key and the subscriber-count key, every successful write
\* stores a resourceVersion strictly above that of every earlier successful
\* write of the key, deletes and re-creations included.
C13_VersionStrictlyIncreasing ==
    [][hresp'.key # <<>> => Sscanf(hresp'.version).n > written.last[hresp'.key]]_vars

\* C13 as amended: when requests do not overlap, a successful write over a
\* stored record stores a resourceVersion exactly one above the one it
\* overwrites, and a write to an absent key (a first create, or a re-create
\* after a delete) stores "1".
C13_VersionBumpsWhileStored ==
    [][(hresp'.key # <<>> /\ ~written.overlap)
          => hresp'.version = Sprintf(VersionOf(StoredKvs(hresp'.key)) + 1)]_vars

\* The count key has been overwritten (version 2 over version 1) and the HSI
\* key has just been written while absent (version 1).
C13_Witness ==
    /\ hresp.key \in UserIds /\ hresp.version = <<"1">>
    /\ written.last[CountKey] = 2
    /\ VersionOf(CountKvs) = 2
    /\ ~written.overlap

\* C14: a successful UpdateHSIConfig on an existing record (one the handler
\* found stored when it read the version, and that is stored when it writes)
\* stores the enableStatus the record held and a resourceVersion exactly one
\* greater than the record's.
C14_UpdatePreservesStatus ==
    [][\A r \in HsiServing :
          (UpdatePut(r, TRUE) /\ r.user \in DOMAIN configs /\ r.version # <<"1">>)
             => /\ configs'[r.user].metadata.enableStatus = configs[r.user].metadata.enableStatus
                /\ configs'[r.user].metadata.resourceVersion
                      = Sprintf(VersionOf(ConfigKvs(r.user)) + 1)]_vars

\* C14 as amended: the same, for an update in a history of requests that do
\* not overlap.
C14_UpdatePreservesStatusSerial ==
    [][\A r \in HsiServing :
          (UpdatePut(r, TRUE) /\ r.user \in DOMAIN configs /\ ~written.overlap)
             => /\ configs'[r.user].metadata.enableStatus = configs[r.user].metadata.enableStatus
                /\ configs'[r.user].metadata.resourceVersion
                      = Sprintf(VersionOf(ConfigKvs(r.user)) + 1)]_vars

\* An update has overwritten a record whose enableStatus was not "disabled":
\* the record keeps that status and holds version 2.
C14_Witness ==
    /\ ~written.overlap
    /\ \E u \in DOMAIN configs :
          /\ configs[u].metadata.enableStatus = "unknown"
          /\ configs[u].metadata.resourceVersion = <<"2">>

\* A GetHSIConfig has answered that came in right after a CreateHSIConfig for
\* the same user had found no record under the key and answered 200, no store
\* call of either having failed.
GotAfterCreate ==
    /\ hresp.op = "GetHSIConfig" /\ hresp.clean
    /\ hresp.after.op = "Create" /\ hresp.after.status = 200
    /\ hresp.after.prior = <<>> /\ hresp.after.clean
    /\ hresp.after.user = hresp.user

\* C15: a GetHSIConfig that follows a CreateHSIConfig for the same user, the
\* create having found no record under the key and answered 200 (no store
\* call of either failing), answers 200 with the submitted fields as config,
\* resourceVersion "1" and enableStatus "disabled".
C15_CreateThenGet ==
    GotAfterCreate
        => /\ hresp.status = 200
           /\ Len(hresp.body) = 1
           /\ hresp.body[1].config = hresp.after.cfg
           /\ hresp.body[1].metadata.resourceVersion = <<"1">>
           /\ hresp.body[1].metadata.enableStatus = "disabled"

\* Such a read has answered while a subscriber count is set (so that its cap
\* check had a count to compare with).
C15_Witness ==
    /\ GotAfterCreate
    /\ CountKvs # <<>>
    /\ written.last[hresp.user] = 1

\* C16: DialPPPoE and HangupPPPoE write a command key only while the HSI record
\* of the user is stored, with the envelope's vlan, account and password those
\* of the record; a request for a user without a record is answered 404 and
\* writes no command key.
C16_CommandNeedsRecord ==
    [][/\ commands' # commands
          => \E r \in HsiServing :
                /\ r.op \in Actions /\ r.user \in DOMAIN configs
                /\ DOMAIN commands' = DOMAIN commands \cup {<<r.op, r.user>>}
                /\ commands'[<<r.op, r.user>>].vlan = configs[r.user].config.vlan_id
                /\ commands'[<<r.op, r.user>>].account = configs[r.user].config.account_name
                /\ commands'[<<r.op, r.user>>].password = configs[r.user].config.password
       /\ (hresp'.op \in Actions /\ hresp'.user # <<>> /\ hresp'.clean
             /\ hresp'.user \notin DOMAIN configs)
          => (hresp'.status = 404 /\ commands' = commands)]_vars

\* C16 as amended: the same, but a request for a user without a record is
\* answered 400 when the user id exceeds the subscriber count that is set (the
\* cap is looked at first), 404 otherwise, or 500 when the read of the record
\* fails; it writes no command key in any of these cases.
C16_CommandNeedsRecordOrCap ==
    [][/\ commands' # commands
          => \E r \in HsiServing :
                /\ r.op \in Actions /\ r.user \in DOMAIN configs
                /\ DOMAIN commands' = DOMAIN commands \cup {<<r.op, r.user>>}
                /\ \A k \in DOMAIN commands : k # <<r.op, r.user>> => commands'[k] = commands[k]
                /\ commands'[<<r.op, r.user>>].action = r.op
                /\ commands'[<<r.op, r.user>>].user_id = r.user
                /\ commands'[<<r.op, r.user>>].vlan = configs[r.user].config.vlan_id
                /\ commands'[<<r.op, r.user>>].account = configs[r.user].config.account_name
                /\ commands'[<<r.op, r.user>>].password = configs[r.user].config.password
       /\ (hresp'.op \in Actions /\ hresp'.user # <<>> /\ hresp'.user \notin DOMAIN configs)
          => /\ commands' = commands
             /\ hresp'.clean
                  => hresp'.status =
                        IF ExceedsCount(GetSubscriberCount(TRUE), hresp'.user) THEN 400 ELSE 404
             /\ ~hresp'.clean => hresp'.status \in {404, 500}]_vars

\* A hangup for a user whose record is gone has just been answered 400 under a
\* lowered subscriber count, while a dial command written from the record's
\* VLAN 200 is still stored.
C16_Witness ==
    /\ hresp.op = "hangup" /\ hresp.status = 400
    /\ hresp.user \in ConfigUsers \ DOMAIN configs
    /\ <<"dial", hresp.user>> \in DOMAIN commands
    /\ commands[<<"dial", hresp.user>>].vlan = "200"

\* The i-th event of the watch is the PUT of a value that parses.
ParseablePut(i) ==
    /\ i <= Len(feed)
    /\ feed[i].type = "PUT"
    /\ Unmarshal(feed[i].value).ok

\* The history key of the i-th event holds that event under the 7-day lease.
HistoryHolds(i) ==
    /\ i <= Len(feed)
    /\ LET e == Unmarshal(feed[i].value).event
           k == <<e.node_id, Sprintf(e.timestamp)>>
       IN
        /\ k \in DOMAIN fhist
        /\ Unmarshal(fhist[k].value) = [ok |-> TRUE, event |-> e]
        /\ fhist[k].ttl = 604800

\* C17: once the watcher is done with the PUT of a parseable failed event,
\* failed_events_history/{node_id}/{timestamp} is stored under a lease of
\* 604800 seconds (the finite form of "every such PUT eventually produces
\* the key"), whatever came before the event on the watch.
C17_HandledPutInHistory ==
    \A i \in 1..watcher.at :
        ParseablePut(i)
           => LET k == HistoryKey(Unmarshal(feed[i].value).event) IN
              k \in DOMAIN fhist /\ fhist[k].ttl = 604800

\* Every long-lived goroutine has returned: the sweeper, the loop of every
\* monitor created, the watcher.
AllTasksExited ==
    /\ sweep.pc = "exited"
    /\ \A m \in MonIds : mons[m].loop = "exited"
    /\ watcher.pc \in {"returned", "cancelled"}

\* C18: once GrpcServer.Stop has been called, the stale sweeper, every
\* monitor loop and the failed-event watcher eventually terminate.
C18_ShutdownStopsAllTasks == (down.pc # "idle") ~> AllTasksExited

\* A step of the scrape loop of monitor m.
LoopStep(m) ==
    \/ ScrapeTick(m)
    \/ ScrapeFail(m)
    \/ ScrapeResponse(m)
    \/ \E n \in 1..MaxNics : ScrapeWrite(m, n)
    \/ ScrapePanic(m)
    \/ MonitorExit(m)

\* The gauge series of node u.
SeriesOf(sr, u) == {x \in sr : x.node_uuid = u}

\* C19: no step of the scrape loop of one node changes the monitor entry, the
\* monitor or the gauge series of another node.
C19_ScrapeLeavesOthers ==
    [][\A m \in MonIds : \A b \in TwoNodes \ {mons[m].nodeUUID} :
          LoopStep(m)
             => /\ MonitorOf(b)' = MonitorOf(b)
                /\ \A k \in MonIds : mons[k].nodeUUID = b => mons'[k] = mons[k]
                /\ SeriesOf(series', b) = SeriesOf(series, b)]_vars

\* C20: right after UpdateNodeSubscriberCount has answered 200 for a count
\* n >= 0, GetNodeSubscriberCount answers 200 with n; a PUT with n < 0 is
\* answered 400 and leaves the stored count as it was.
C20_CountRoundTrip ==
    [][/\ (hresp'.op = "CountPut" /\ hresp'.status = 200)
          => /\ hresp'.n >= 0
             /\ GetNodeSubscriberCount(TRUE)' = [status |-> 200, error |-> "", count |-> hresp'.n]
       /\ (hresp'.op = "CountPut" /\ hresp'.n < 0)
          => /\ hresp'.status = 400
             /\ counts' = counts]_vars

\* A PUT with a negative count has just been answered 400 while the count
\* stored by an earlier PUT of 2 is still what a GET returns.
C20_Witness ==
    /\ hresp.op = "CountPut" /\ hresp.n < 0 /\ hresp.status = 400
    /\ GetNodeSubscriberCount(TRUE) = [status |-> 200, error |-> "", count |-> 2]


\* C21: POST /api/register never overwrites an existing users/{username}: no
\* step of a registration changes or removes the hash of a key that exists,
\* and every well-formed registration that is answered while the key exists
\* (the store reachable) is answered 409, under any interleaving.
C21_RegisterNeverOverwrites ==
    [][rresp'.op = "Register"
          => /\ \A name \in DOMAIN users :
                   name \in DOMAIN users' /\ users'[name] = users[name]
             /\ (rresp'.name \in DOMAIN users /\ rresp'.status \notin {0, 400, 500})
                   => rresp'.status = 409]_vars


\* The event types a reader filters by.
FilterTypes == {"pppoe_dial", "pppoe_hangup"}

\* The stored values whose event_type is the string X.
MatchingKeys(X) ==
    {k \in DOMAIN fhist :
        /\ fhist[k].value.wellformed
        /\ "event_type" \in DOMAIN fhist[k].value
        /\ fhist[k].value.event_type = X}

\* C22: GET /api/failed-events?event_type=X returns exactly the stored events
\* whose event_type is the string X: every event returned is one of them, and
\* each of them is returned once.
C22_FilterIsExact ==
    \A X \in FilterTypes :
        LET r == GetAllFailedEvents(X, TRUE) IN
        /\ r.status = 200
        /\ \A i \in 1..Len(r.events) : r.events[i] \in {fhist[k].value : k \in MatchingKeys(X)}
        /\ Len(r.events) = Cardinality(MatchingKeys(X))

\* The history holds an event of the type pppoe_dial, one of the type
\* pppoe_hangup and one stored with an empty event_type, and the listing
\* filtered by pppoe_dial is the pppoe_dial events alone.
C22_Witness ==
    /\ MatchingKeys("pppoe_dial") # {}
    /\ MatchingKeys("pppoe_hangup") # {}
    /\ MatchingKeys("") # {}
    /\ LET r == GetAllFailedEvents("pppoe_dial", TRUE) IN
       /\ r.status = 200
       /\ Len(r.events) = Cardinality(MatchingKeys("pppoe_dial"))
       /\ Len(r.events) < Cardinality(DOMAIN fhist)
       /\ \A i \in 1..Len(r.events) : r.events[i].event_type = "pppoe_dial"

\* C23: both listings are newest first: of two events of one response, the
\* one with the larger timestamp comes earlier.
NewestFirst(events) ==
    \A i, j \in 1..Len(events) :
        events[i].timestamp > events[j].timestamp => i < j

C23_NewestFirst ==
    /\ \A n \in {"n1", "n2"} : NewestFirst(GetFailedEvents(n, TRUE).events)
    /\ NewestFirst(GetAllFailedEvents("", TRUE).events)


\* The texts "A-B": the words a and b around one dash, padded at will.
RangeOf(a, b) == {p[1] \o a \o p[2] \o Dash \o p[3] \o b \o p[4] : p \in [1..4 -> Pads]}

\* The texts with no dash or with two.
NotRanges ==
    {p \o w \o q : p, q \in Pads, w \in Words}
    \cup {w[1] \o Dash \o w[2] \o Dash \o w[3] : w \in [1..3 -> Words]}
    \cup {w[1] \o <<" ">> \o w[2] : w \in [1..2 -> Words]}

ParseIPRangeReturned == arg # <<>> /\ arg.fn = "ParseIPRange" /\ ret # NoRet

\* C24 as stated: ParseIPRange returns the pair (A, B) without the white
\* space around them for every text "A-B", and an error for the empty text and
\* for a text with no dash or more than one.
C24_ParseIPRangeReturnsPair ==
    ParseIPRangeReturned =>
        /\ \A a, b \in Words :
              arg.in \in RangeOf(a, b) =>
                  ~ret.err /\ IPString(ret.start) = a /\ IPString(ret.end) = b
        /\ arg.in \in NotRanges => ret.err

\* C24, amended: for a text "A-B" ParseIPRange returns no error and, for each
\* side, the address the side denotes once the white space around it is
\* removed, or nil when that is not an IP address; it returns an error for the
\* empty text and for a text with no dash or more than one.
C24_ParseIPRangeParsesSides ==
    ParseIPRangeReturned =>
        /\ \A a, b \in Words :
              arg.in \in RangeOf(a, b) =>
                  /\ ~ret.err
                  /\ IF ParseIP(a) # NilIP THEN IPString(ret.start) = a ELSE ret.start = NilIP
                  /\ IF ParseIP(b) # NilIP THEN IPString(ret.end) = b ELSE ret.end = NilIP
        /\ arg.in \in NotRanges => ret.err

C24_Witness ==
    /\ ParseIPRangeReturned /\ ~ret.err
    /\ arg.in[1] = " " /\ arg.in[Len(arg.in)] = "\t"
    /\ ret.start = IPv4(10, 0, 0, 1) /\ ret.end = IPv4(192, 168, 3, 254)


IPv4toIntReturned == arg # <<>> /\ arg.fn = "IPv4toInt" /\ ret # NoRet

\* C25: for the IPv4 address a.b.c.d, in its 4-byte or its 16-byte form,
\* IPv4toInt returns a*2^24 + b*2^16 + c*2^8 + d within 32 bits (the upper
\* half of the result is a*2^8 + b, the lower half c*2^8 + d); for an address
\* with no IPv4 form it returns an error.
C25_IPv4toIntValue ==
    IPv4toIntReturned =>
        /\ \A a, b, c, d \in Octets :
              arg.in \in {IPv4(a, b, c, d), <<a, b, c, d>>} =>
                  /\ ~ret.err
                  /\ ret.n.hi = a * 256 + b /\ ret.n.lo = c * 256 + d
                  /\ ret.n.hi \in 0..65535 /\ ret.n.lo \in 0..65535
        /\ arg.in \in NotIPv4 => ret.err

C25_Witness ==
    /\ IPv4toIntReturned /\ ~ret.err
    /\ arg.in = IPv4(255, 255, 255, 255)
    /\ ret.n = [hi |-> 65535, lo |-> 65535]


\* The monitors of u whose context is not cancelled and whose connection is open.
LiveMonitors(u) ==
    {m \in 1..Len(mons) : mons[m].nodeUUID = u /\ ~mons[m].cancelled /\ mons[m].connOpen}

\* C26: under any interleaving of the StartMonitoring and StopMonitoring
\* calls of the handlers and the sweeper, a uuid has at most one monitor with
\* an uncancelled context and an open connection, and it is the one the
\* supervisor's map holds (whenever nmm.mu is free the map's monitor is that
\* one); when StartMonitoring replaces the map's monitor of a uuid, the old
\* monitor has been cancelled and closed before the new one is installed.
C26_OneLiveMonitor ==
    /\ [](\A u \in Fleet :
             /\ Cardinality(LiveMonitors(u)) <= 1
             /\ LiveMonitors(u) \subseteq {MonitorOf(u)}
             /\ (mu = Unlocked /\ u \in DOMAIN monitors) => LiveMonitors(u) = {monitors[u]})
    /\ [][\A u \in DOMAIN monitors :
             (u \in DOMAIN monitors' /\ monitors'[u] # monitors[u])
             => /\ mons[monitors[u]].cancelled /\ ~mons[monitors[u]].connOpen
                /\ mons'[monitors[u]].cancelled /\ ~mons'[monitors[u]].connOpen
                /\ ~mons'[monitors'[u]].cancelled /\ mons'[monitors'[u]].connOpen]_vars

C26_Witness ==
    \E u \in DOMAIN monitors :
        /\ monitors[u] = 2
        /\ mons[1].nodeUUID = u /\ mons[1].cancelled /\ ~mons[1].connOpen
        /\ LiveMonitors(u) = {2}
        /\ u \in DOMAIN nodes


\* The record the sweeper is at, and whether what it read for it is a number
\* more than HeartbeatTimeout seconds before the sweep's clock reading.
SweepAt == sweep.kvs[sweep.i]

ReadStale ==
    /\ "last_seen_time" \in DOMAIN SweepAt.value
    /\ sweep.currentTime - SweepAt.value.last_seen_time > 60

\* C27: in a sweep, the sweeper goes on to unregister a record (StopMonitoring,
\* then the Delete of its key, which removes it unless the store fails) if and
\* only if the last_seen_time it read is a number more than 60 seconds before
\* the sweep's clock reading; any other record, one that does not parse or has
\* no numeric last_seen_time among them, is passed over with its key left in
\* place and the sweep moves to the next record; the sweeper removes no key
\* but the one it is unregistering.
C27_SweepDeletesOnlyStale ==
    [][/\ (sweep.pc = "loop" /\ sweep.i <= Len(sweep.kvs) /\ sweep' # sweep)
          => IF ReadStale
             THEN sweep'.pc \in {"stopping", "delete"} /\ sweep'.i = sweep.i
             ELSE sweep' = [sweep EXCEPT !.i = @ + 1] /\ nodes' = nodes
       /\ \A u \in DOMAIN nodes \ DOMAIN nodes' :
             sweep.pc = "delete" /\ SweepAt.key = u /\ ReadStale
       /\ (sweep.pc = "delete" /\ sweep' # sweep)
          => /\ nodes' \in {nodes, DelKey(nodes, SweepAt.key)}
             /\ sweep'.pc = "loop" /\ sweep'.i = sweep.i + 1]_vars

\* A sweep has passed over an unreadable record of n1 and deleted the stale
\* record of n2 behind it.
C27_Witness ==
    /\ sweep.pc = "loop" /\ sweep.i = 3
    /\ ~SweepStale(sweep.currentTime, sweep.kvs[1].value)
    /\ "last_seen_time" \notin DOMAIN sweep.kvs[1].value
    /\ "n1" \in DOMAIN nodes
    /\ sweep.deleted = {"n2"} /\ "n2" \notin DOMAIN nodes


\* C28: a Heartbeat that arrived after an UnregisterNode of its uuid had
\* stopped the monitor and before it had deleted nodes/{uuid} fails: it is
\* never answered without an error.
C28_HeartbeatInWindowFails ==
    [][\A r \in InFlight :
          (r.op = "Heartbeat" /\ r.mon0 = -1 /\ r.pc = "put" /\ calls' = calls (-) SetToBag({r}))
              => reply' # [op |-> "Heartbeat", uuid |-> r.uuid, res |-> "ok"]]_vars


\* The fields of a body in the order of the spec's list, with the message each
\* one's absence is answered with.
FieldOrder ==
    <<"user_id", "vlan_id", "account_name", "password", "dhcp_addr_pool", "dhcp_subnet",
      "dhcp_gateway">>

FieldMessage ==
    <<"User ID is required", "VLAN ID is required", "Account Name is required",
      "Password is required", "DHCP Address Pool is required", "DHCP Subnet is required",
      "DHCP Gateway is required">>

FieldMissing(cfg, i) ==
    IF FieldOrder[i] = "user_id" THEN cfg.user_id = <<>> ELSE cfg[FieldOrder[i]] = ""

\* The stored count caps user id u; another user's record holds VLAN v.
OverCap(u) ==
    /\ ConfigNode \in DOMAIN counts
    /\ Atoi(counts[ConfigNode].subscriber_count).ok /\ Atoi(u).ok
    /\ Atoi(u).n > Atoi(counts[ConfigNode].subscriber_count).n

VlanTaken(v, u) ==
    \E w \in DOMAIN configs : configs[w].config.vlan_id = v /\ configs[w].config.user_id # u

\* C29: CreateHSIConfig and UpdateHSIConfig answer with the first check that
\* fails, in the order required fields (in the order of the body), subscriber
\* cap, VLAN uniqueness: a missing field is answered 400 with that field's
\* message; with no field missing (and the path's user id the body's) a user
\* id over the cap is answered 400 "User ID exceeds subscriber count" even
\* when the VLAN is taken by another user; a 409 is answered only to a request
\* that passes the checks before it; and a request that is not answered 200
\* writes nothing.  (Requests one at a time, none of whose store calls failed.)
C29_FirstFailingCheck ==
    [][(hresp'.op \in {"Create", "Update"} /\ hresp'.status # 0)
          => LET cfg     == hresp'.cfg
                 missing == {i \in 1..Len(FieldOrder) : FieldMissing(cfg, i)}
                 first   == CHOOSE i \in missing : \A j \in missing : i <= j
             IN  /\ hresp'.status # 200 => UNCHANGED <<configs, counts, commands>>
                 /\ (hresp'.clean /\ hresp'.status # 500) =>
                       IF missing # {}
                       THEN hresp'.status = 400 /\ hresp'.error = FieldMessage[first]
                       ELSE IF cfg.user_id # hresp'.user
                       THEN hresp'.status = 400 /\ hresp'.error = "User ID mismatch"
                       ELSE IF OverCap(cfg.user_id)
                       THEN /\ hresp'.status = 400
                            /\ hresp'.error = "User ID exceeds subscriber count"
                       ELSE IF VlanTaken(cfg.vlan_id, hresp'.user)
                       THEN hresp'.status = 409
                       ELSE hresp'.status \in {200, 401}]_vars

\* A request over the cap that also reuses another user's VLAN has just been
\* answered 400.
C29_Witness ==
    /\ hresp.op \in {"Create", "Update"} /\ hresp.clean
    /\ hresp.status = 400 /\ hresp.error = "User ID exceeds subscriber count"
    /\ RequiredFields(hresp.cfg) = ""
    /\ OverCap(hresp.cfg.user_id)
    /\ VlanTaken(hresp.cfg.vlan_id, hresp.user)


\* A step answers request r: r leaves the requests in flight and none takes
\* its place.
Answers(r) ==
    /\ CopiesIn(r, hsi') < CopiesIn(r, hsi)
    /\ BagCardinality(hsi') < BagCardinality(hsi)

\* C30: two overlapping CreateHSIConfig requests for different user ids and
\* one vlan_id can both succeed and leave two records that share the VLAN,
\* because the scan and the write are separate steps: a Create that has passed
\* its scan is answered 200 or (the store failing) 500, never 409, and a 200
\* stores its record, whatever VLANs the store holds by then.
C30_ScanAndWriteApart ==
    [][\A r \in BagToSet(hsi) :
          (r.op = "Create" /\ r.pc \in {"version", "put"} /\ Answers(r))
             => /\ hresp'.status \in {200, 500}
                /\ hresp'.status = 200 =>
                      /\ r.user \in DOMAIN configs'
                      /\ configs'[r.user].config.vlan_id = r.cfg.vlan_id]_vars

\* Both users hold a record created (version 1) by overlapping requests, the
\* second just answered 200, and the two records share their VLAN.
C30_Witness ==
    /\ written.overlap
    /\ hresp.op = "Create" /\ hresp.status = 200
    /\ DOMAIN configs = VlanUsers
    /\ \A u \in VlanUsers : /\ configs[u].config.vlan_id = "100"
                            /\ configs[u].metadata.resourceVersion = Sprintf(1)


\* The count stored for the node when it is valid (an integer >= 0), else -1.
ValidCount ==
    IF ConfigNode \in DOMAIN counts
       /\ Atoi(counts[ConfigNode].subscriber_count).ok
       /\ Atoi(counts[ConfigNode].subscriber_count).n >= 0
    THEN Atoi(counts[ConfigNode].subscriber_count).n ELSE -1

Range(seq) == {seq[i] : i \in DOMAIN seq}

\* C31: when its reads are answered, GetHSIUserIds returns, each once, exactly
\* the key suffixes its read of configs/{node}/hsi/ returned (all the keys
\* stored at that read) minus those that parse as integers above the node's
\* subscriber count when a valid count is stored at its read of the count;
\* ids that are no integers are kept, and with no valid count stored (none, a
\* text that is no number, a negative one) nothing is left out.
C31_UserIdsFilteredByCount ==
    [][/\ GetHSIUserIdsGet(TRUE)
          => \E q \in BagToSet(hsi') :
                /\ q.op = "GetHSIUserIds" /\ q.pc = "count"
                /\ Range(q.keys) = DOMAIN configs
                /\ Len(q.keys) = Cardinality(DOMAIN configs)
       /\ \A r \in HsiServing :
             GetHSIUserIdsCount(r, TRUE)
                => LET ids == hresp'.body IN
                   /\ hresp'.status = 200
                   /\ Len(ids) = Cardinality(Range(ids))
                   /\ Range(ids) =
                         {u \in Range(r.keys) :
                            ~(ValidCount >= 0 /\ Atoi(u).ok /\ Atoi(u).n > ValidCount)}
                   /\ ValidCount < 0 => ids = r.keys
                   /\ \A u \in Range(r.keys) : ~Atoi(u).ok => u \in Range(ids)]_vars

\* Records of users 1, 2 and x are stored under a count of 1, and a list has
\* just answered: user 2 is left out and user x is kept.
C31_Witness ==
    /\ DOMAIN configs = UserIds
    /\ ValidCount = 1
    /\ hresp.op = "GetHSIUserIds" /\ hresp.status = 200 /\ hresp.clean
    /\ hresp.body = <<(<<"1">>), (<<"x">>)>>


\* User id u is an integer above the valid count stored for the node.
AboveCount(u) == ValidCount >= 0 /\ Atoi(u).ok /\ Atoi(u).n > ValidCount

\* A step leaves every HSI record but that of u, and every command, as it was.
LeavesTheRest(u) ==
    /\ commands' = commands
    /\ DOMAIN configs' \subseteq DOMAIN configs
    /\ \A w \in DOMAIN configs \ {u} : w \in DOMAIN configs' /\ configs'[w] = configs[w]

\* C32: a DeleteHSIConfig whose store calls are answered removes the record
\* when it exists (200) and changes no key under commands/ and no other HSI
\* record; on an absent record it is answered 404 and changes nothing.
C32_DeleteRemovesOnlyTheRecord ==
    [][(hresp'.op = "Delete" /\ hresp'.clean /\ hresp'.status \notin {0, 500})
          => LET u == hresp'.user IN
             /\ LeavesTheRest(u)
             /\ IF u \in DOMAIN configs
                THEN hresp'.status = 200 /\ u \notin DOMAIN configs'
                ELSE hresp'.status = 404 /\ configs' = configs]_vars

\* C32 as amended: a DeleteHSIConfig for a user id that is an integer above
\* the node's valid subscriber count is answered 400 and changes nothing,
\* whether the record exists or not; any other DeleteHSIConfig whose store
\* calls are answered removes the record when it exists (200), is answered 404
\* and changes nothing when it does not, and in no case changes a key under
\* commands/ or another HSI record.
C32_DeleteWithinCountRemoves ==
    [][(hresp'.op = "Delete" /\ hresp'.clean /\ hresp'.status \notin {0, 500})
          => LET u == hresp'.user IN
             /\ LeavesTheRest(u)
             /\ IF AboveCount(u)
                THEN hresp'.status = 400 /\ configs' = configs
                ELSE IF u \in DOMAIN configs
                THEN hresp'.status = 200 /\ u \notin DOMAIN configs'
                ELSE hresp'.status = 404 /\ configs' = configs]_vars

\* The record of one user has just been deleted: the other user's record and
\* the deleted user's dial command are still stored.
C32_Witness ==
    /\ hresp.op = "Delete" /\ hresp.status = 200
    /\ hresp.user \notin DOMAIN configs
    /\ DOMAIN configs # {}
    /\ <<"dial", hresp.user>> \in DOMAIN commands


\* No RegisterNode, Heartbeat or unregister handler is running and the
\* sweeper is between two cycles.
Quiescent == calls = EmptyBag /\ sweep.pc = "idle"

\* C33: in every quiescent state the uuids that have a monitor in the
\* supervisor's map are the uuids that have a nodes/{uuid} record.
C33_MonitorsMatchRecords ==
    Quiescent => DOMAIN monitors = DOMAIN nodes


\* C34: a nodes/{uuid} record is only ever created by RegisterNode: every step
\* that makes the key exist is the Put of a RegisterNode for that uuid, so
\* that after an unregister or a stale sweep no Heartbeat, not even one that
\* read the record before the delete, brings the record back.
C34_OnlyRegisterCreates ==
    [][\A u \in Fleet :
          (u \notin DOMAIN nodes /\ u \in DOMAIN nodes')
             => \E r \in InFlight :
                   /\ r.op = "Register" /\ r.uuid = u /\ r.pc = "put"
                   /\ CopiesIn(r, calls') < CopiesIn(r, calls)]_vars


\* A step of the sweeper's StopMonitoring for the record it is at: the call
\* itself (it finds no monitor and returns, or cancels the monitor it finds)
\* and every later step of stopMonitoringLocked, which only the holder of
\* nmm.mu takes.  The sweeper's Delete of the key, whatever the store answers.
SweeperStops ==
    \/ sweep.pc = "loop" /\ sweep'.pc \in {"stopping", "delete"}
    \/ sweep.pc = "stopping" /\ mu' # mu
SweeperDeletes == sweep.pc = "delete" /\ sweep'.pc = "loop"

\* C35: the stale sweeper never deletes the record, or stops the monitor, of
\* a node that is fresh at that moment: the last_seen_time stored under the
\* key when the sweeper stops the monitor or deletes the key is more than
\* HeartbeatTimeout before the time of that step, whatever Heartbeat or
\* RegisterNode did between the sweeper's range read and its delete.
C35_SweptRecordIsStaleNow ==
    [][(SweeperStops \/ SweeperDeletes)
          => \A u \in {SweepAt.key} \cap DOMAIN nodes :
                now - nodes[u].last_seen_time > HeartbeatTimeout]_vars

\* C35 as amended: whenever the sweeper stops a monitor or deletes
\* nodes/{uuid}, the last_seen_time its range read of this cycle returned for
\* the key is more than HeartbeatTimeout before the time the sweeper read
\* after the range read.
C35_SweptRecordWasReadStale ==
    [][(SweeperStops \/ SweeperDeletes)
          => /\ "last_seen_time" \in DOMAIN SweepAt.value
             /\ sweep.currentTime - SweepAt.value.last_seen_time > HeartbeatTimeout
             /\ sweep.currentTime <= now]_vars

\* The sweeper has cancelled the monitor the supervisor held for n1 and taken
\* it out of the map, and has deleted the record of n1 in this cycle, while a
\* Heartbeat that had read the record is still on its way to its Put.
C35_Witness ==
    /\ "n1" \in sweep.deleted
    /\ "n1" \notin DOMAIN nodes
    /\ "n1" \notin DOMAIN monitors
    /\ \E m \in MonIds : mons[m].nodeUUID = "n1" /\ mons[m].cancelled /\ ~mons[m].connOpen
    /\ \E r \in InFlight : r.op = "Heartbeat" /\ r.uuid = "n1" /\ r.pc = "put"


\* C36: once StopMonitoring(uuid) has returned, the goroutine of the stopped
\* monitor sets no gauge: no step of a cancelled monitor's loop adds a series
\* to the registry, so a scrape that was in progress when the stop happened
\* cannot re-create a series with node_uuid = uuid after deleteNodeMetrics.
C36_StoppedMonitorWritesNothing ==
    [][\A m \in MonIds :
          (/\ mons[m].cancelled
           /\ MonitorOf(mons[m].nodeUUID) # m
           /\ mons'[m] # mons[m])
             => series' \subseteq series]_vars


\* C37: in every quiescent state, for each uuid that has both a nodes/{uuid}
\* record and a monitor, the monitor's target address is the ip of the stored
\* record, also after two RegisterNode calls for the uuid with different
\* addresses have overlapped.
C37_MonitorTargetsStoredIp ==
    Quiescent => \A u \in DOMAIN nodes \cap DOMAIN monitors :
                    mons[monitors[u]].nodeIP = nodes[u].ip


\* C38: every enableStatus the controller writes into an HSI record is
\* "disabled" (CreateHSIConfig) or the enableStatus the record under the same
\* key held immediately before the write (UpdateHSIConfig); UpdateHSIConfig
\* creates no record and stores no status that no earlier record had.
C38_StatusDisabledOrKept ==
    [][\A u \in DOMAIN configs' :
          (u \notin DOMAIN configs \/ configs'[u] # configs[u])
             => \/ /\ hresp'.op = "Create"
                   /\ configs'[u].metadata.enableStatus = "disabled"
                \/ /\ hresp'.op = "Update"
                   /\ u \in DOMAIN configs
                   /\ configs'[u].metadata.enableStatus = configs[u].metadata.enableStatus]_vars


\* The watcher has handled the i-th event of the watch, the PUT of a value
\* that parses, and neither its Grant nor its Put failed.
Stored(i) == i <= watcher.at /\ ParseablePut(i) /\ i \notin watcher.dropped

\* The events i and j go to one history key: same node id, same timestamp.
SameKey(i, j) ==
    LET a == Unmarshal(feed[i].value).event
        b == Unmarshal(feed[j].value).event
    IN  a.node_id = b.node_id /\ a.timestamp = b.timestamp

\* C39: no failed event is lost in the history: every parseable event PUT
\* under failed_events/ that the watcher has stored has its own entry in
\* failed_events_history/ under its lease, two events of one node that carry
\* the same timestamp included.
C39_EveryEventHasItsEntry ==
    \A i \in 1..Len(feed) : Stored(i) => HistoryHolds(i)

\* C39 as amended: every parseable event PUT under failed_events/ that the
\* watcher has stored is the value of failed_events_history/{node_id}/{timestamp}
\* under its lease, unless the watcher has since stored another event of the
\* same node with the same timestamp, which takes its place under the key.
C39_LatestEventOfKeyKept ==
    \A i \in 1..Len(feed) :
        (Stored(i) /\ \A j \in (i + 1)..Len(feed) : ~(Stored(j) /\ SameKey(i, j)))
           => HistoryHolds(i)

\* Two different events of node n1 with one timestamp have both been stored:
\* the history holds the second under their key, and the first is gone.
C39_Witness ==
    /\ Len(feed) >= 2 /\ Stored(1) /\ Stored(2)
    /\ SameKey(1, 2) /\ feed[1].value # feed[2].value
    /\ HistoryHolds(2) /\ ~HistoryHolds(1)


\* C40: getNicCounter handles every successful GetFastrgSystemInfo response
\* without a runtime fault, a NIC entry whose per-user statistics list is
\* empty included: the goroutine that holds a response goes on to set its
\* gauges, and no such step ends the monitor's goroutine or the process.
C40_ResponseNeverFaults ==
    [][\A m \in MonIds :
          mons[m].loop = "got1"
             => /\ mons'[m].loop # "exited"
                /\ \A k \in MonIds : mons[k].loop # "exited" => mons'[k].loop # "exited"]_vars

==========================================================================
